---- MODULE Spec2Model ----
(***************************************************************************)
(* Model of the DFS aggregation handler of api-getactivities/main.go (the  *)
(* join / select / histogram / dedup pass over a roster-slot listing), of  *)
(* its pure helpers, and of the Strava handler getStravaData of the        *)
(* service (token refresh, activities request, conversion).                *)
(*                                                                         *)
(* Conventions.  A Go string is a sequence of one-character strings, so    *)
(* that formatting (fmt.Sprint), strings.Split, strings.ToLower and        *)
(* strings.Contains are computed and not assumed.  A Go float64 score,     *)
(* odds figure or average is an integer; a quotient is kept as the pair    *)
(* [num, den] (den = 0 is the +Inf/NaN result of a float division by 0).   *)
(* A timestamp is an integer count of hours; BadTime is a text that        *)
(* time.Parse rejects.                                                     *)
(***************************************************************************)
EXTENDS Integers, Sequences, FiniteSets, TLC

VARIABLES
    sample,     \* histogram builder: the simulated-score sample (input)
    hist,       \* histogram builder: the 8 bucket counts, <<>> before the build
    games,      \* game selector: one athlete's ledger (pitchers[id].Games)
    ref,        \* game selector: the reference timestamp t
    sel,        \* game selector: outcome of the game loop, SelIdle before it ran
    oddsDat,    \* Team Odds Table: team id text -> [Games: <<[Commence_time, Points]>>]
    TeamKeys,   \* Team Average Table: team id text -> [Avg_points]
    path,       \* the request's context: which block of the handler its query selects
    feed,       \* the stored listing blob of the draft group (read by every request)
    draftables, \* draftables.Draftables, decoded from the feed (DraftKings)
    players,    \* players.Players, decoded from the feed (FanDuel)
    contextTime,    \* contextTimeInt / 1000 as a timestamp (FanDuel reference time)
    pc,         \* "idle", "loop" (inside the range loop), "panic" (request aborted)
    next,       \* index of the next listing entry the range loop visits
    requests,   \* number of requests started
    FinalPitcher, FinalPitchers, FinalPitcherKeys,
    FinalBatter, FinalBatters, FinalBatterKeys,
    FinalNFLPlayer, FinalNFLPlayers, FinalNFLPlayerKeys,
    gated,      \* history: for each slot that reached the gate, [slot, uid, eligible,
                \* selected, appended] (listing index, UID, flag, ledger entry matched)
    responses,  \* history: the Data list written by each completed request
    passes,     \* concurrent requests: goroutine -> [listing, pc, next, response, overlapped]
    frames,     \* concurrent requests: the handler locals of each invocation
    spc,        \* Strava handler: position of the request in getStravaData
    upstream,   \* Strava handler: history of the upstream requests sent, [call, bearer]
    refreshReply,     \* Strava handler: the response to the token refresh, NoReply before
    activitiesReply,  \* Strava handler: the response to the activities request
    access_token,     \* Strava handler: credsToUse.Access_token after the decode
    athActs,    \* Strava handler: the decoded []ActivitySummary
    actIdx,     \* Strava handler: index of the activity the range loop visits next
    finalActs,  \* Strava handler: finalActs.Data
    written     \* Strava handler: what the client is answered, [status, json, Data]

histVars  == <<sample, hist>>
selVars   == <<games, ref, sel>>
tableVars == <<oddsDat, TeamKeys>>
inputVars == <<path, feed, contextTime>>
pitcherVars == <<FinalPitcher, FinalPitchers, FinalPitcherKeys>>
batterVars  == <<FinalBatter, FinalBatters, FinalBatterKeys>>
nflVars     == <<FinalNFLPlayer, FinalNFLPlayers, FinalNFLPlayerKeys>>
concVars  == <<passes, frames>>
stravaVars == <<spc, upstream, refreshReply, activitiesReply, access_token, athActs, actIdx,
                finalActs, written>>
passVars  == <<draftables, players, pc, next, requests, pitcherVars, batterVars, nflVars,
               gated, responses>>

----------------------------------------------------------------------------
(* Bounds of the model.                                                     *)

MaxSampleLen == 5
MaxGames == 3
MaxSlots == 2       \* entries of a listing
MaxRequests == 2    \* requests served for the same draft group
MaxOdds == 2        \* entries of a team's odds sequence, and of the ledger scanned with it
MaxActivities == 2  \* activities in one response of the Strava API

----------------------------------------------------------------------------
(* Strings.                                                                 *)

DigitChar == <<"0", "1", "2", "3", "4", "5", "6", "7", "8", "9">>

\* fmt.Sprint of an int operand: its decimal digits, no padding.
RECURSIVE Itoa(_)
Itoa(n) ==
    IF n < 0 THEN <<"-">> \o Itoa(0 - n)
    ELSE IF n < 10 THEN <<DigitChar[n + 1]>>
    ELSE Itoa(n \div 10) \o <<DigitChar[(n % 10) + 1]>>

Upper == <<"A", "B", "C", "D", "E", "F", "G", "H", "I", "J", "K", "L", "M",
           "N", "O", "P", "Q", "R", "S", "T", "U", "V", "W", "X", "Y", "Z">>
Lower == <<"a", "b", "c", "d", "e", "f", "g", "h", "i", "j", "k", "l", "m",
           "n", "o", "p", "q", "r", "s", "t", "u", "v", "w", "x", "y", "z">>

LowerChar(c) ==
    IF \E k \in DOMAIN Upper : Upper[k] = c
    THEN Lower[CHOOSE k \in DOMAIN Upper : Upper[k] = c]
    ELSE c

\* strings.ToLower
ToLower(s) == [i \in DOMAIN s |-> LowerChar(s[i])]

\* strings.Split(s, sep) for a one-character separator: the pieces between
\* the separators, one piece (s itself) when there is none.
RECURSIVE SplitFrom(_, _, _, _)
SplitFrom(s, sep, i, cur) ==
    IF i > Len(s) THEN <<cur>>
    ELSE IF s[i] = sep THEN <<cur>> \o SplitFrom(s, sep, i + 1, <<>>)
    ELSE SplitFrom(s, sep, i + 1, Append(cur, s[i]))

Split(s, sep) == SplitFrom(s, sep, 1, <<>>)

\* strings.Contains
Contains(s, sub) ==
    \E i \in 1..(Len(s) - Len(sub) + 1) : SubSeq(s, i, i + Len(sub) - 1) = sub

\* implContains(slice, x): x is an element of the slice.
implContains(slice, x) == \E i \in DOMAIN slice : slice[i] = x

\* fmt.Sprint(a, "_", lookup, "_", Position, "_", "_", id, "_", Salary): every
\* second operand is a string, so no space is inserted between operands.
SprintUid(a, lookup, Position, id, Salary) ==
    a \o <<"_">> \o Itoa(lookup) \o <<"_">> \o Position \o <<"_">> \o <<"_">> \o id
      \o <<"_">> \o Itoa(Salary)

----------------------------------------------------------------------------
(* Histogram Builder: the if / else-if chain over one score and the eight   *)
(* counters appended in order to tempPointsList.                            *)

NoBucket == 0 - 1

\* mutant: the first test excludes 0, so a score of 0 lands in the next bucket
BucketZeroInSecond(value) ==
    IF value < 0 THEN 0
    ELSE IF value >= 0 /\ value < 10 THEN 1
    ELSE IF value >= 10 /\ value < 20 THEN 2
    ELSE IF value >= 20 /\ value < 30 THEN 3
    ELSE IF value >= 30 /\ value < 40 THEN 4
    ELSE IF value >= 40 /\ value < 50 THEN 5
    ELSE IF value >= 50 /\ value < 60 THEN 6
    ELSE IF value >= 60 THEN 7
    ELSE NoBucket

\* mutant: the last test is strict, so a score of exactly 60 matches no branch
BucketSixtyDropped(value) ==
    IF value <= 0 THEN 0
    ELSE IF value >= 0 /\ value < 10 THEN 1
    ELSE IF value >= 10 /\ value < 20 THEN 2
    ELSE IF value >= 20 /\ value < 30 THEN 3
    ELSE IF value >= 30 /\ value < 40 THEN 4
    ELSE IF value >= 40 /\ value < 50 THEN 5
    ELSE IF value >= 50 /\ value < 60 THEN 6
    ELSE IF value > 60 THEN 7
    ELSE NoBucket

\* The branch of the chain that one score takes (0 = t_lessthan0, ...,
\* 7 = t_sixty_plus); NoBucket when no branch matches.
Bucket(value) ==
    IF value <= 0 THEN 0
    ELSE IF value >= 0 /\ value < 10 THEN 1
    ELSE IF value >= 10 /\ value < 20 THEN 2
    ELSE IF value >= 20 /\ value < 30 THEN 3
    ELSE IF value >= 30 /\ value < 40 THEN 4
    ELSE IF value >= 40 /\ value < 50 THEN 5
    ELSE IF value >= 50 /\ value < 60 THEN 6
    ELSE IF value >= 60 THEN 7
    ELSE NoBucket

ZeroCounters == <<0, 0, 0, 0, 0, 0, 0, 0>>

\* The range loop: counters after the scores list[i..] have been added to counts.
RECURSIVE CountScores(_, _, _)
CountScores(list, i, counts) ==
    IF i > Len(list) THEN counts
    ELSE LET b == Bucket(list[i])
         IN  CountScores(list, i + 1,
                 IF b = NoBucket THEN counts
                 ELSE [counts EXCEPT ![b + 1] = counts[b + 1] + 1])

\* tempPointsList: the eight counters, all starting at 0 for the slot.
Histogram(list) == CountScores(list, 1, ZeroCounters)

----------------------------------------------------------------------------
(* Times and Go maps.                                                       *)

Hour == 1                   \* time.Hour, in the model's unit
BadTime == 0 - 2            \* a timestamp text that time.Parse rejects
EmptyDate == 0 - 1          \* the empty string in a date field

\* m[k] of a Go map: the element type's zero value when the key is absent.
MapGet(m, k, zero) == IF k \in DOMAIN m THEN m[k] ELSE zero

ZeroOdds == [Games |-> <<>>]          \* zero value of an oddsDat element
ZeroTeamPoints == [Avg_points |-> 0]  \* zero value of a TeamKeys element
ZeroFactor == [num |-> 0, den |-> 1]  \* the float 0

\* a / b on float64: no fault when b = 0, the result is +Inf or NaN (den = 0).
FloatDiv(a, b) == [num |-> a, den |-> b]

----------------------------------------------------------------------------
(* Odds Enricher: the inner range loop over oddsDat[tmpTeamId].Games, which *)
(* breaks at the end of its first iteration.  st = [rec, fault].            *)

\* mutant: the scan goes on to the first entry that qualifies (no break after
\* an entry that does not) and reads the opponent's entry at that index
OddsScanFirstQualifying(st, gameTime, tmpTeamId, opponent) ==
    LET oddsGames == MapGet(oddsDat, tmpTeamId, ZeroOdds).Games
        oppGames  == MapGet(oddsDat, Itoa(opponent), ZeroOdds).Games
        q == {k \in DOMAIN oddsGames : gameTime > oddsGames[k].Commence_time}
    IN  IF q = {} THEN st
        ELSE LET ix == CHOOSE k \in q : \A j \in q : k <= j
                 r1 == [st.rec EXCEPT
                          !.Game_team_oddspoints = oddsGames[ix].Points,
                          !.Game_player_oddsfactor =
                              FloatDiv(oddsGames[ix].Points,
                                       MapGet(TeamKeys, tmpTeamId, ZeroTeamPoints).Avg_points)]
             IN  IF Len(oppGames) < ix
                 THEN [st EXCEPT !.rec = r1, !.fault = TRUE]
                 ELSE [st EXCEPT !.rec =
                          [r1 EXCEPT !.Game_opponent_oddspoints = oppGames[ix].Points]]

OddsScan(st, gameTime, tmpTeamId, opponent) ==
    LET oddsGames == MapGet(oddsDat, tmpTeamId, ZeroOdds).Games
        oppGames  == MapGet(oddsDat, Itoa(opponent), ZeroOdds).Games
    IN  IF Len(oddsGames) = 0 THEN st
        ELSE LET odds_values == oddsGames[1]
             IN  IF gameTime > odds_values.Commence_time
                 THEN LET r1 == [st.rec EXCEPT
                                   !.Game_team_oddspoints = odds_values.Points,
                                   !.Game_player_oddsfactor =
                                       FloatDiv(odds_values.Points,
                                                MapGet(TeamKeys, tmpTeamId, ZeroTeamPoints).Avg_points)]
                      IN  IF Len(oppGames) < 1
                          THEN [st EXCEPT !.rec = r1, !.fault = TRUE]   \* index out of range
                          ELSE [st EXCEPT !.rec =
                                   [r1 EXCEPT !.Game_opponent_oddspoints = oppGames[1].Points]]
                 ELSE st

----------------------------------------------------------------------------
(* Game Selector: the range loop over the athlete's Games.                  *)

\* The service branch taken inside the loop: (mean, sample, cumulative).
ServiceFields(g_value, contextService) ==
    IF contextService = "draftkings"
    THEN [mean |-> g_value.Draftkings_proj_points, list |-> g_value.Dk_points_list,
          cume |-> g_value.Draftkings_cume_points]
    ELSE [mean |-> g_value.Fanduel_proj_points, list |-> g_value.Fd_points_list,
          cume |-> g_value.Fanduel_cume_points]

\* The assignments made from the matching ledger entry before the break.
SetGame(rec, g_value, contextService, isBatter) ==
    LET f  == ServiceFields(g_value, contextService)
        r1 == [rec EXCEPT !.Game_gameDate = g_value.GameDate,
                          !.ProjPoints = f.mean,
                          !.ProjPointsList = Histogram(f.list),
                          !.Games_sim_cume_points = f.cume,
                          !.Game_opponent = g_value.Opponent,
                          !.Game_venue = g_value.Venue]
    IN  IF isBatter THEN [r1 EXCEPT !.Game_player_pfactor = g_value.Player_pfactor]
        ELSE r1

\* mutant: the reference test without the one-hour adjustment
IsAfterReferenceNoAdjust(GameDate, t) == GameDate > t

\* gameTime = GameDate + time.Hour; gameTime.After(t)
IsAfterReference(GameDate, t) == GameDate + Hour > t

\* mutant: no break after the match, the scan goes on and a later match wins
RECURSIVE GameLoopNoBreak(_, _, _, _, _, _, _)
GameLoopNoBreak(st, Games, i, t, tmpTeamId, contextService, isBatter) ==
    IF i > Len(Games) THEN st
    ELSE LET g_value == Games[i]
         IN  IF g_value.GameDate = BadTime
             THEN [st EXCEPT !.fault = TRUE, !.scanned = i]
             ELSE LET o == OddsScan([st EXCEPT !.scanned = i], g_value.GameDate + Hour,
                                    tmpTeamId, g_value.Opponent)
                  IN  IF o.fault THEN o
                      ELSE IF IsAfterReference(g_value.GameDate, t)
                      THEN GameLoopNoBreak(
                              [o EXCEPT !.rec = SetGame(o.rec, g_value, contextService, isBatter),
                                        !.selected = i],
                              Games, i + 1, t, tmpTeamId, contextService, isBatter)
                      ELSE GameLoopNoBreak(o, Games, i + 1, t, tmpTeamId, contextService, isBatter)

\* The loop from entry i on.  st = [rec, fault, scanned, selected]: the record
\* being assembled, whether a panic was raised, the number of ledger entries
\* the loop has examined and the index of the entry it matched (0: none).
RECURSIVE GameLoop(_, _, _, _, _, _, _)
GameLoop(st, Games, i, t, tmpTeamId, contextService, isBatter) ==
    IF i > Len(Games) THEN st
    ELSE LET g_value == Games[i]
         IN  IF g_value.GameDate = BadTime
             THEN [st EXCEPT !.fault = TRUE, !.scanned = i]          \* panic(err)
             ELSE LET o == OddsScan([st EXCEPT !.scanned = i], g_value.GameDate + Hour,
                                    tmpTeamId, g_value.Opponent)
                  IN  IF o.fault THEN o
                      ELSE IF IsAfterReference(g_value.GameDate, t)
                      THEN [o EXCEPT !.rec = SetGame(o.rec, g_value, contextService, isBatter),
                                     !.selected = i]                 \* break
                      ELSE GameLoop(o, Games, i + 1, t, tmpTeamId, contextService, isBatter)

LoopStart(rec) == [rec |-> rec, fault |-> FALSE, scanned |-> 0, selected |-> 0]

----------------------------------------------------------------------------
(* Records.                                                                 *)

\* Zero value of a Pitcher (var FinalPitcher Pitcher).
ZeroPitcher ==
    [ProbablePitcher |-> FALSE, Status |-> "", Game_gameDate |-> EmptyDate,
     ProjPoints |-> 0, ProjPointsList |-> <<>>, Games_sim_cume_points |-> 0,
     Game_opponent |-> 0, Game_venue |-> 0,
     Game_team_oddspoints |-> 0, Game_player_oddsfactor |-> ZeroFactor,
     Game_opponent_oddspoints |-> 0,
     Mlb_id |-> 0, Team_name |-> "", Positions |-> <<>>, Salary |-> 0,
     RosterSlotId |-> 0, Draftable_uid |-> <<>>]

\* Zero value of a Batter (var FinalBatter Batter).
ZeroBatter ==
    [Inlineup |-> FALSE, Status |-> "", Game_gameDate |-> EmptyDate,
     ProjPoints |-> 0, ProjPointsList |-> <<>>, Games_sim_cume_points |-> 0,
     Game_opponent |-> 0, Game_venue |-> 0, Game_player_pfactor |-> 0,
     Game_team_oddspoints |-> 0, Game_player_oddsfactor |-> ZeroFactor,
     Game_opponent_oddspoints |-> 0,
     Mlb_id |-> 0, Team_name |-> "", Positions |-> <<>>, Salary |-> 0,
     RosterSlotId |-> 0, Draftable_uid |-> <<>>]

\* The per-slot resets written before the game loop.
ResetGame(rec, status) ==
    [rec EXCEPT !.Status = status, !.Game_gameDate = EmptyDate, !.ProjPoints = 0,
                !.Games_sim_cume_points = 0, !.Game_opponent = 0, !.Game_venue = 0,
                !.Game_team_oddspoints = 0, !.Game_player_oddsfactor = ZeroFactor,
                !.Game_opponent_oddspoints = 0]

----------------------------------------------------------------------------
(* The tables of the model.  Team 3 has an odds entry, team 4 has one, the  *)
(* other teams have none.                                                   *)

T3 == <<"3">>
T4 == <<"4">>

OddsTable ==
    (T3 :> [Games |-> <<[Commence_time |-> 2, Points |-> 9],
                        [Commence_time |-> 3, Points |-> 7]>>]) @@
    (T4 :> [Games |-> <<[Commence_time |-> 2, Points |-> 4]>>])

TeamAverages == (T3 :> [Avg_points |-> 5]) @@ (T4 :> [Avg_points |-> 4])

\* A ledger entry with the game timestamp d at position i of a ledger; every
\* other field is distinct per position, so that a record shows which entry
\* it was filled from.
Game(d, i) ==
    [GameDate |-> d, Opponent |-> 4, Venue |-> 100 + i,
     Draftkings_proj_points |-> 10 * i, Dk_points_list |-> <<10 * i, 0>>,
     Draftkings_cume_points |-> 50 + i,
     Fanduel_proj_points |-> 10 * i + 1, Fd_points_list |-> <<10 * i + 1>>,
     Fanduel_cume_points |-> 70 + i,
     Player_pfactor |-> i]

----------------------------------------------------------------------------
(* The inputs of a pass.  Position and id texts are character sequences     *)
(* (they are split, lowered and concatenated); texts the handler only       *)
(* copies or compares (Status, Team_name, attribute values) are strings.    *)

PosSP == <<"S", "P">>
PosOF == <<"O", "F">>
PosP  == <<"P">>
PosRB == <<"R", "B">>
PosQB == <<"Q", "B">>
PosWR == <<"W", "R">>
PosD  == <<"D">>
PosDEF == <<"D", "E", "F">>

NoneDate == 0 - 3           \* the text "None" in a date field
SlateDate == 7              \* fd_game_date, the slate's Date_string

\* ID Crosswalk: platform id text -> [PlayerID].  Platform ids 11, 12 and 13
\* are athletes 1, 2 and 3; platform id 99 has no entry.
Keys ==
    (Itoa(11) :> [PlayerID |-> 1]) @@ (Itoa(12) :> [PlayerID |-> 2]) @@
    (Itoa(13) :> [PlayerID |-> 3])

ZeroKey == [PlayerID |-> 0]

\* Games Ledger of the pitchers: athlete 1 (team 3) has a past game and two
\* future ones, athlete 2 (team 4) has a past game only, athlete 3 (team 3)
\* has a future game against team 5, which has no odds entry.
pitchers ==
    (Itoa(1) :> [Team_id |-> T3, Team_name |-> "A",
                 Games |-> <<Game(5, 1), Game(20, 2), Game(30, 3)>>]) @@
    (Itoa(2) :> [Team_id |-> T4, Team_name |-> "B",
                 Games |-> <<[Game(5, 1) EXCEPT !.Opponent = 3]>>]) @@
    (Itoa(3) :> [Team_id |-> T3, Team_name |-> "A",
                 Games |-> <<[Game(20, 1) EXCEPT !.Opponent = 5]>>])

batters == pitchers

ZeroSim == [Team_id |-> <<>>, Team_name |-> "", Games |-> <<>>]

\* nfl_players: one pre-selected matchup per athlete.
nfl_players ==
    (Itoa(1) :> [Game_team_name |-> "A", Game_opp_id |-> 4, Game_venue_id |-> 7,
                 Game_points_for |-> 24, Game_points_against |-> 17,
                 Dk_classic_points_mean |-> 12, Dk_classic_points_list |-> <<12, 0>>,
                 Dk_classic_cume_points |-> 50,
                 Dk_showdown_points_mean |-> 13, Dk_showdown_points_list |-> <<13, 61>>,
                 Dk_showdown_cume_points |-> 51,
                 Fd_classic_points_mean |-> 14, Fd_classic_points_list |-> <<14>>,
                 Fd_classic_cume_points |-> 52])

ZeroNflSim ==
    [Game_team_name |-> "", Game_opp_id |-> 0, Game_venue_id |-> 0,
     Game_points_for |-> 0, Game_points_against |-> 0,
     Dk_classic_points_mean |-> 0, Dk_classic_points_list |-> <<>>,
     Dk_classic_cume_points |-> 0,
     Dk_showdown_points_mean |-> 0, Dk_showdown_points_list |-> <<>>,
     Dk_showdown_cume_points |-> 0,
     Fd_classic_points_mean |-> 0, Fd_classic_points_list |-> <<>>,
     Fd_classic_cume_points |-> 0]

\* defaultNFLPlayer
defaultNFLPlayer ==
    [Nfl_id |-> <<"0">>, Team_name |-> "None", Positions |-> <<<<"N", "o", "n", "e">>>>,
     Inlineup |-> FALSE, Status |-> "None", Salary |-> 0, RosterSlotId |-> 0,
     ProjPoints |-> 0, ProjPointsList |-> ZeroCounters, Game_gameDate |-> NoneDate,
     Game_opponent |-> 0, Game_player_oddsfactor |-> ZeroFactor,
     Game_team_oddspoints |-> 0, Game_opponent_oddspoints |-> 0,
     Games_sim_cume_points |-> 0, Game_venue |-> 0, Draftable_uid |-> <<>>]

\* Zero value of an NflPlayer (var FinalNFLPlayer NflPlayer).
ZeroNFLPlayer ==
    [Nfl_id |-> <<>>, Team_name |-> "", Positions |-> <<>>,
     Inlineup |-> FALSE, Status |-> "", Salary |-> 0, RosterSlotId |-> 0,
     ProjPoints |-> 0, ProjPointsList |-> <<>>, Game_gameDate |-> EmptyDate,
     Game_opponent |-> 0, Game_player_oddsfactor |-> ZeroFactor,
     Game_team_oddspoints |-> 0, Game_opponent_oddspoints |-> 0,
     Games_sim_cume_points |-> 0, Game_venue |-> 0, Draftable_uid |-> <<>>]

\* A DraftKings draftable; StartTime is Competition.StartTime.
DKSlot(pid, pos, sal, slotId, attrs, start) ==
    [PlayerDkId |-> pid, Position |-> pos, Salary |-> sal, RosterSlotId |-> slotId,
     Status |-> "None", PlayerGameAttributes |-> attrs, StartTime |-> start]

AttrIn  == <<[Id |-> 1, Value |-> "true"]>>       \* probable pitcher, in the lineup
AttrOut == <<[Id |-> 100, Value |-> "false"]>>    \* not probable, not in the lineup

\* A FanDuel player.
FDSlot(id, pos, sal, e, injured) ==
    [Id |-> id, Position |-> pos, Positions |-> <<pos>>, Salary |-> sal,
     Draftable |-> e, Probable_pitcher |-> e, Injured |-> injured,
     Injury_status |-> "Q"]

FDId(pid) == <<"7", "-">> \o Itoa(pid)

\* The entries a listing of the model is drawn from: every combination of
\* platform id, showdown slot and eligibility at one salary, and single
\* variants of the salary, the position, the start time, the id text and an
\* ineligible entry of athlete 3.
DKMlbPool(pos, other) ==
    {DKSlot(pid, pos, 100, rs, a, 10) : pid \in {11, 12, 99}, rs \in {573, 574},
                                       a \in {AttrIn, AttrOut}}
    \cup {DKSlot(11, pos, 150, rs, AttrIn, 10) : rs \in {573, 574}}
    \cup {DKSlot(11, other, 100, 573, AttrIn, 10), DKSlot(11, pos, 100, 573, AttrIn, BadTime),
          DKSlot(13, pos, 100, 573, AttrOut, 10), DKSlot(12, pos, 100, 0, AttrIn, 10)}

DKNflPool ==
    {DKSlot(pid, PosRB, 100, rs, a, 10) : pid \in {11, 99}, rs \in {511, 512},
                                      a \in {AttrIn, AttrOut}}
    \cup {DKSlot(11, PosRB, 150, rs, AttrIn, 10) : rs \in {511, 512}}
    \cup {[DKSlot(11, PosQB, 100, 511, AttrIn, 10) EXCEPT !.Status = "Q"],
          [DKSlot(11, PosDEF, 100, 511, AttrIn, 10) EXCEPT !.Status = "Q"],
          DKSlot(11, PosRB \o <<"/">> \o PosWR, 100, 70, AttrIn, 10)}

FDMlbPool(pos, other) ==
    {FDSlot(FDId(pid), pos, 100, e, FALSE) : pid \in {11, 12, 99}, e \in BOOLEAN}
    \cup {FDSlot(FDId(11), pos, 150, TRUE, FALSE), FDSlot(FDId(11), other, 100, TRUE, FALSE),
          FDSlot(FDId(11), pos, 100, TRUE, TRUE), FDSlot(Itoa(11), pos, 100, TRUE, FALSE),
          FDSlot(FDId(13), pos, 100, FALSE, FALSE)}

FDNflPool ==
    {FDSlot(FDId(pid), PosRB, 100, e, FALSE) : pid \in {11, 99}, e \in BOOLEAN}
    \cup {[FDSlot(FDId(11), PosRB, 150, TRUE, FALSE) EXCEPT !.Positions = <<PosRB, PosWR>>],
          FDSlot(FDId(11), PosD, 100, TRUE, TRUE),
          FDSlot(FDId(11), PosQB, 100, TRUE, TRUE), FDSlot(Itoa(11), PosRB, 100, TRUE, FALSE)}

Paths == {"fd_nfl", "dk_nfl_classic", "dk_nfl_showdown", "dk_pitchers", "dk_batters",
          "fd_pitchers", "fd_batters"}

DKPaths == {"dk_nfl_classic", "dk_nfl_showdown", "dk_pitchers", "dk_batters"}

PoolOf(p) ==
    CASE p = "dk_pitchers" -> DKMlbPool(PosSP, PosOF)
      [] p = "dk_batters"  -> DKMlbPool(PosOF, PosSP)
      [] p = "fd_pitchers" -> FDMlbPool(PosP, PosOF)
      [] p = "fd_batters"  -> FDMlbPool(PosOF, PosP)
      [] p = "fd_nfl"      -> FDNflPool
      [] OTHER             -> DKNflPool

\* No request has been served: the handler's request-scoped variables do
\* not exist yet (shown as zero values).
AccumulatorsZero ==
    /\ FinalPitcher = ZeroPitcher /\ FinalPitchers = <<>> /\ FinalPitcherKeys = <<>>
    /\ FinalBatter = ZeroBatter /\ FinalBatters = <<>> /\ FinalBatterKeys = <<>>
    /\ FinalNFLPlayer = ZeroNFLPlayer /\ FinalNFLPlayers = <<>> /\ FinalNFLPlayerKeys = <<>>

PassIdle ==
    /\ path = "none" /\ feed = <<>> /\ contextTime = 0
    /\ draftables = <<>> /\ players = <<>>
    /\ pc = "idle" /\ next = 1 /\ requests = 0
    /\ AccumulatorsZero
    /\ gated = <<>> /\ responses = <<>>

\* Two requests for /dfs served at the same time, each by its own goroutine.
Goroutines == {1, 2}

\* The locals of one invocation of the handler, as declared.
ZeroFrame == [FinalPitcher |-> ZeroPitcher, FinalPitchers |-> <<>>, FinalPitcherKeys |-> <<>>]

NoResponse == [status |-> 0, Data |-> <<>>]

\* No concurrent request is being served.
ConcIdle ==
    /\ passes = [r \in Goroutines |-> [listing |-> <<>>, pc |-> "idle", next |-> 1,
                                       response |-> NoResponse, overlapped |-> FALSE]]
    /\ frames = [r \in Goroutines |-> ZeroFrame]


\* No upstream response received.
NoReply == [status |-> 0, kind |-> "none"]

\* Nothing written to the client.
NothingWritten == [status |-> 0, json |-> FALSE, Data |-> <<>>]

\* No request for /strava is being served.
StravaIdle ==
    /\ spc = "idle" /\ upstream = <<>>
    /\ refreshReply = NoReply /\ activitiesReply = NoReply
    /\ access_token = <<>> /\ athActs = <<>> /\ actIdx = 1 /\ finalActs = <<>>
    /\ written = NothingWritten


----------------------------------------------------------------------------
(* Specification of the histogram builder alone: any sample of at most      *)
(* MaxSampleLen scores drawn from ScoreValues (both sides of every bucket   *)
(* boundary the chain tests).                                               *)

ScoreValues == {0 - 5, 0, 9, 10, 15, 59, 60, 61}

SeqsUpTo(S, n) == UNION {[1..k -> S] : k \in 0..n}

SelIdle == [done |-> FALSE, rec |-> ZeroPitcher, fault |-> FALSE, scanned |-> 0, selected |-> 0]

HistIdle == sample = <<>> /\ hist = <<>>
SelectorIdle == games = <<>> /\ ref = 0 /\ sel = SelIdle
TablesInit == oddsDat = OddsTable /\ TeamKeys = TeamAverages

HistInit ==
    /\ sample \in SeqsUpTo(ScoreValues, MaxSampleLen)
    /\ hist = <<>>
    /\ SelectorIdle
    /\ TablesInit
    /\ PassIdle /\ ConcIdle /\ StravaIdle

BuildHistogram ==
    /\ hist = <<>>
    /\ hist' = Histogram(sample)
    /\ UNCHANGED <<sample, selVars, tableVars, inputVars, passVars, concVars, stravaVars>>

HistNext == BuildHistogram

vars == <<histVars, selVars, tableVars, inputVars, passVars, concVars, stravaVars>>

SpecHist == HistInit /\ [][HistNext]_vars

----------------------------------------------------------------------------
(* Specification of the game selector alone: one athlete's ledger of at     *)
(* most MaxGames entries, in any order, and one reference timestamp; the    *)
(* action is the game loop of one slot, run on a freshly reset record.      *)

GameTimes == {8, 9, 10, BadTime}
RefTimes == {9, 10}

Ledgers == UNION {{[i \in 1..k |-> Game(d[i], i)] : d \in [1..k -> GameTimes]} : k \in 0..MaxGames}

SelInit ==
    /\ games \in Ledgers
    /\ ref \in RefTimes
    /\ sel = SelIdle
    /\ HistIdle
    /\ TablesInit
    /\ PassIdle /\ ConcIdle /\ StravaIdle

SelectGame ==
    /\ ~sel.done
    /\ LET r == GameLoop(LoopStart(ResetGame(ZeroPitcher, "")), games, 1, ref, T3,
                         "draftkings", FALSE)
       IN  sel' = [done |-> TRUE, rec |-> r.rec, fault |-> r.fault,
                   scanned |-> r.scanned, selected |-> r.selected]
    /\ UNCHANGED <<games, ref, histVars, tableVars, inputVars, passVars, concVars, stravaVars>>

SelNext == SelectGame

SpecSel == SelInit /\ [][SelNext]_vars

----------------------------------------------------------------------------
(* Specification of the odds enricher inside the game loop: the tables vary *)
(* (the team's odds sequence, the opponent's, present or absent, and the    *)
(* team's average), the ledger has at most MaxOdds entries; the action is   *)
(* the game loop of one slot of team 3, as in SpecSel.                      *)

OddsGameTimes == {8, 11}

OddsLedgers ==
    UNION {{[i \in 1..k |-> Game(d[i], i)] : d \in [1..k -> OddsGameTimes]} : k \in 0..MaxOdds}

OddsEntries == [Commence_time : {5, 9, 12}, Points : {7, 9}]

OpponentEntries == [Commence_time : {0}, Points : {4, 6}]

OddsTables ==
    {(T3 :> [Games |-> a]) @@ (T4 :> [Games |-> b]) :
        a \in SeqsUpTo(OddsEntries, MaxOdds), b \in SeqsUpTo(OpponentEntries, MaxOdds)}
    \cup {(T3 :> [Games |-> a]) : a \in SeqsUpTo(OddsEntries, MaxOdds)}

AverageTables ==
    {(T3 :> [Avg_points |-> 5]), (T3 :> [Avg_points |-> 0]), (T4 :> [Avg_points |-> 4])}

OddsInit ==
    /\ games \in OddsLedgers
    /\ ref \in RefTimes
    /\ sel = SelIdle
    /\ oddsDat \in OddsTables
    /\ TeamKeys \in AverageTables
    /\ HistIdle
    /\ PassIdle /\ ConcIdle /\ StravaIdle

SpecOdds == OddsInit /\ [][SelNext]_vars

----------------------------------------------------------------------------
(* The aggregation pass: the body of each block's range loop.  A body takes *)
(* the request's record variable as the previous slot left it and the slot  *)
(* s, and returns [rec, fault, selected]: the record assembled, whether the *)
(* body panicked, and the ledger position the game loop matched (0: none).  *)

TagCpt  == <<"c", "p", "t">>
TagUtil == <<"u", "t", "i", "l">>
TagFlex == <<"f", "l", "e", "x">>

\* The range loop over s.PlayerGameAttributes finds an attribute (id, value).
HasAttr(attrs, id, value) == \E i \in DOMAIN attrs : attrs[i].Id = id /\ attrs[i].Value = value

\* for i, p := range Positions { Positions[i] = strings.ToLower(p) }
LowerAll(ps) == [i \in DOMAIN ps |-> ToLower(ps[i])]

\* The same loop of the FanDuel NFL block, which first turns "D" into "def".
LowerAllNfl(ps) == [i \in DOMAIN ps |-> ToLower(IF ps[i] = <<"D">> THEN <<"d", "e", "f">> ELSE ps[i])]

\* mutant: "flex" is appended once for every position of the set
RECURSIVE WithFlexPerPosition(_)
WithFlexPerPosition(ps) ==
    IF ps = <<>> THEN <<>>
    ELSE LET rest == WithFlexPerPosition(Tail(ps))
         IN  IF Head(ps) \in {<<"r", "b">>, <<"w", "r">>, <<"t", "e">>, <<"p", "k">>, <<"k">>}
             THEN <<Head(ps)>> \o rest \o <<TagFlex>>
             ELSE <<Head(ps)>> \o rest

\* Positions gets "flex" appended when it holds rb, wr, te, pk or k.
WithFlex(ps) ==
    IF \/ implContains(ps, <<"r", "b">>) \/ implContains(ps, <<"w", "r">>)
       \/ implContains(ps, <<"t", "e">>) \/ implContains(ps, <<"p", "k">>)
       \/ implContains(ps, <<"k">>)
    THEN Append(ps, TagFlex)
    ELSE ps

\* mutant: the gate without the membership test on the seen set
GateNoSeenTest(FinalKeys, Data, rec, eligible) ==
    IF ~eligible
    THEN [Keys |-> FinalKeys, Data |-> Data, appended |-> FALSE]
    ELSE [Keys |-> Append(FinalKeys, rec.Draftable_uid), Data |-> Append(Data, rec),
          appended |-> TRUE]

\* mutant: the gate without the eligibility test
GateNoEligibilityTest(FinalKeys, Data, rec, eligible) ==
    IF implContains(FinalKeys, rec.Draftable_uid)
    THEN [Keys |-> FinalKeys, Data |-> Data, appended |-> FALSE]
    ELSE [Keys |-> Append(FinalKeys, rec.Draftable_uid), Data |-> Append(Data, rec),
          appended |-> TRUE]

\* mutant: the gate records the UID of an ineligible record in the seen set
GateMarksIneligible(FinalKeys, Data, rec, eligible) ==
    IF implContains(FinalKeys, rec.Draftable_uid)
    THEN [Keys |-> FinalKeys, Data |-> Data, appended |-> FALSE]
    ELSE IF ~eligible
    THEN [Keys |-> Append(FinalKeys, rec.Draftable_uid), Data |-> Data, appended |-> FALSE]
    ELSE [Keys |-> Append(FinalKeys, rec.Draftable_uid), Data |-> Append(Data, rec),
          appended |-> TRUE]

\* mutant: the gate puts the record at the front of the output list
GatePrepends(FinalKeys, Data, rec, eligible) ==
    IF implContains(FinalKeys, rec.Draftable_uid)
    THEN [Keys |-> FinalKeys, Data |-> Data, appended |-> FALSE]
    ELSE IF ~eligible
    THEN [Keys |-> FinalKeys, Data |-> Data, appended |-> FALSE]
    ELSE [Keys |-> Append(FinalKeys, rec.Draftable_uid), Data |-> <<rec>> \o Data,
          appended |-> TRUE]

\* mutant: the gate appends the record but does not add its UID to the seen set
GateForgetsUid(FinalKeys, Data, rec, eligible) ==
    IF implContains(FinalKeys, rec.Draftable_uid)
    THEN [Keys |-> FinalKeys, Data |-> Data, appended |-> FALSE]
    ELSE IF ~eligible
    THEN [Keys |-> FinalKeys, Data |-> Data, appended |-> FALSE]
    ELSE [Keys |-> FinalKeys, Data |-> Append(Data, rec), appended |-> TRUE]

\* Deduplication Gate: if implContains(Keys, uid) {} else if !eligible {} else
\* { Keys = append(Keys, uid); Data = append(Data, rec) }
Gate(FinalKeys, Data, rec, eligible) ==
    IF implContains(FinalKeys, rec.Draftable_uid)
    THEN [Keys |-> FinalKeys, Data |-> Data, appended |-> FALSE]
    ELSE IF ~eligible
    THEN [Keys |-> FinalKeys, Data |-> Data, appended |-> FALSE]
    ELSE [Keys |-> Append(FinalKeys, rec.Draftable_uid), Data |-> Append(Data, rec),
          appended |-> TRUE]

\* Keys[key].PlayerID
Lookup(key) == MapGet(Keys, key, ZeroKey).PlayerID

\* The slot filter of the DraftKings MLB blocks.
IsDKPitcherSlot(s) == Contains(s.Position, <<"S", "P">>) \/ Contains(s.Position, <<"R", "P">>)

\* The slot filter of the FanDuel MLB blocks.
IsFDPitcherSlot(s) == Contains(s.Position, <<"P">>)

\* DraftKings pitchers.
DKPitcherBody(rec, s) ==
    LET lookup == Lookup(Itoa(s.PlayerDkId))
        sim    == MapGet(pitchers, Itoa(lookup), ZeroSim)
    IN  IF s.StartTime = BadTime THEN [rec |-> rec, fault |-> TRUE, selected |-> 0]
        ELSE LET r0  == ResetGame([rec EXCEPT !.ProbablePitcher =
                                       HasAttr(s.PlayerGameAttributes, 1, "true")], s.Status)
                 g   == GameLoop(LoopStart(r0), sim.Games, 1, s.StartTime, sim.Team_id,
                                 "draftkings", FALSE)
                 pos == LowerAll(Split(s.Position, "/"))
                 p1  == IF s.RosterSlotId = 573 THEN Append(pos, TagCpt) ELSE pos
                 p2  == IF s.RosterSlotId = 574 THEN Append(p1, TagUtil) ELSE p1
                 id  == IF s.RosterSlotId = 574 THEN lookup * 10000
                        ELSE IF s.RosterSlotId = 573 THEN lookup * 1000
                        ELSE lookup
             IN  IF g.fault THEN [rec |-> g.rec, fault |-> TRUE, selected |-> 0]
                 ELSE [rec |-> [g.rec EXCEPT
                                  !.Mlb_id = id, !.Team_name = sim.Team_name,
                                  !.Positions = p2, !.Salary = s.Salary,
                                  !.RosterSlotId = s.RosterSlotId,
                                  !.Draftable_uid = SprintUid(Itoa(s.PlayerDkId), lookup,
                                                              s.Position, Itoa(id), s.Salary)],
                       fault |-> FALSE, selected |-> g.selected]

\* DraftKings batters.
DKBatterBody(rec, s) ==
    LET lookup == Lookup(Itoa(s.PlayerDkId))
        sim    == MapGet(batters, Itoa(lookup), ZeroSim)
    IN  IF s.StartTime = BadTime THEN [rec |-> rec, fault |-> TRUE, selected |-> 0]
        ELSE LET r0 == ResetGame([rec EXCEPT !.Inlineup =
                                      ~HasAttr(s.PlayerGameAttributes, 100, "false")], s.Status)
                 g  == GameLoop(LoopStart(r0), sim.Games, 1, s.StartTime, sim.Team_id,
                                "draftkings", TRUE)
             IN  IF g.fault THEN [rec |-> g.rec, fault |-> TRUE, selected |-> 0]
                 ELSE [rec |-> [g.rec EXCEPT
                                  !.Mlb_id = lookup, !.Team_name = sim.Team_name,
                                  !.Positions = LowerAll(Split(s.Position, "/")),
                                  !.Salary = s.Salary, !.RosterSlotId = s.RosterSlotId,
                                  !.Draftable_uid = SprintUid(Itoa(s.PlayerDkId), lookup,
                                                              s.Position, Itoa(lookup), s.Salary)],
                       fault |-> FALSE, selected |-> g.selected]

\* player_injury_status of the FanDuel blocks.
InjuryStatus(s) == IF s.Injured THEN s.Injury_status ELSE "None"

\* FanDuel pitchers; t is time.Unix(contextTimeInt/1000, 0).
FDPitcherBody(rec, s, t) ==
    LET parts == Split(s.Id, "-")
    IN  IF Len(parts) < 2 THEN [rec |-> rec, fault |-> TRUE, selected |-> 0]        \* index out of range
        ELSE LET FDidLookup == parts[2]
                 lookup == Lookup(FDidLookup)
                 sim    == MapGet(pitchers, Itoa(lookup), ZeroSim)
                 r0     == ResetGame([rec EXCEPT !.ProbablePitcher = s.Probable_pitcher],
                                     InjuryStatus(s))
                 g      == GameLoop(LoopStart(r0), sim.Games, 1, t, sim.Team_id,
                                    "fanduel", FALSE)
             IN  IF g.fault THEN [rec |-> g.rec, fault |-> TRUE, selected |-> 0]
                 ELSE [rec |-> [g.rec EXCEPT
                                  !.Mlb_id = lookup, !.Team_name = sim.Team_name,
                                  !.Positions = LowerAll(s.Positions),
                                  !.Salary = s.Salary, !.RosterSlotId = 0,
                                  !.Draftable_uid = SprintUid(FDidLookup, lookup, s.Position,
                                                              Itoa(lookup), s.Salary)],
                       fault |-> FALSE, selected |-> g.selected]

\* FanDuel batters.
FDBatterBody(rec, s, t) ==
    LET parts == Split(s.Id, "-")
    IN  IF Len(parts) < 2 THEN [rec |-> rec, fault |-> TRUE, selected |-> 0]        \* index out of range
        ELSE LET FDidLookup == parts[2]
                 lookup == Lookup(FDidLookup)
                 sim    == MapGet(batters, Itoa(lookup), ZeroSim)
                 r0     == ResetGame([rec EXCEPT !.Inlineup = s.Draftable], InjuryStatus(s))
                 g      == GameLoop(LoopStart(r0), sim.Games, 1, t, sim.Team_id,
                                    "fanduel", TRUE)
             IN  IF g.fault THEN [rec |-> g.rec, fault |-> TRUE, selected |-> 0]
                 ELSE [rec |-> [g.rec EXCEPT
                                  !.Mlb_id = lookup, !.Team_name = sim.Team_name,
                                  !.Positions = Append(LowerAll(s.Positions), TagUtil),
                                  !.Salary = s.Salary, !.RosterSlotId = 0,
                                  !.Draftable_uid = SprintUid(FDidLookup, lookup, s.Position,
                                                              Itoa(lookup), s.Salary)],
                       fault |-> FALSE, selected |-> g.selected]

\* mutant: the status of a team-defense entry is not suppressed
NflStatusListed(s, status) == status

\* The status of the NFL blocks: a defence has none.
NflStatus(s, status) ==
    IF s.Position = <<"D">> \/ s.Position = <<"D", "E", "F">> THEN "None" ELSE status

\* The assignments every NFL block makes from the athlete's nfl_players
\* element; (mean, list, cume) are the fields of the block's contest type.
NflFromSim(rec, sim, mean, list, cume, gameDate) ==
    [rec EXCEPT !.Team_name = sim.Game_team_name,
                !.ProjPoints = mean, !.ProjPointsList = Histogram(list),
                !.Game_gameDate = gameDate, !.Game_opponent = sim.Game_opp_id,
                !.Game_player_oddsfactor = [num |-> 1, den |-> 1],
                !.Game_team_oddspoints = sim.Game_points_for,
                !.Game_opponent_oddspoints = sim.Game_points_against,
                !.Games_sim_cume_points = cume, !.Game_venue = sim.Game_venue_id]

\* FanDuel NFL, FullRoster.
FDNflBody(rec, s) ==
    LET parts == Split(s.Id, "-")
    IN  IF Len(parts) < 2 THEN [rec |-> rec, fault |-> TRUE, selected |-> 0]   \* index out of range
        ELSE LET nfl_lookup == Lookup(parts[2])
                 sim == MapGet(nfl_players, Itoa(nfl_lookup), ZeroNflSim)
                 r1  == NflFromSim(defaultNFLPlayer, sim, sim.Fd_classic_points_mean,
                                   sim.Fd_classic_points_list, sim.Fd_classic_cume_points,
                                   SlateDate)
             IN  [rec |-> [r1 EXCEPT
                             !.Nfl_id = Itoa(nfl_lookup),
                             !.Positions = WithFlex(LowerAllNfl(s.Positions)),
                             !.Inlineup = s.Draftable,
                             !.Status = NflStatus(s, InjuryStatus(s)),
                             !.Salary = s.Salary, !.RosterSlotId = 0,
                             !.Draftable_uid = SprintUid(s.Id, nfl_lookup, s.Position,
                                                         Itoa(nfl_lookup), s.Salary)],
                  fault |-> FALSE, selected |-> 0]

\* DraftKings NFL, Classic.
DKNflClassicBody(s) ==
    LET nfl_lookup == Lookup(Itoa(s.PlayerDkId))
        sim == MapGet(nfl_players, Itoa(nfl_lookup), ZeroNflSim)
        r1  == NflFromSim(defaultNFLPlayer, sim, sim.Dk_classic_points_mean,
                          sim.Dk_classic_points_list, sim.Dk_classic_cume_points,
                          s.StartTime)
    IN  [rec |-> [r1 EXCEPT
                    !.Nfl_id = Itoa(nfl_lookup),
                    !.Positions = WithFlex(LowerAll(Split(s.Position, "/"))),
                    !.Inlineup = ~HasAttr(s.PlayerGameAttributes, 100, "false"),
                    !.Status = NflStatus(s, s.Status),
                    !.Salary = s.Salary, !.RosterSlotId = s.RosterSlotId,
                    !.Draftable_uid = SprintUid(Itoa(s.PlayerDkId), nfl_lookup, s.Position,
                                                Itoa(nfl_lookup), s.Salary)],
         fault |-> FALSE, selected |-> 0]

\* mutant: the captain tag is given to every slot that is not the flex slot
ShowdownCaptainByDefault(s) ==
    LET nfl_lookup == Lookup(Itoa(s.PlayerDkId))
        sim == MapGet(nfl_players, Itoa(nfl_lookup), ZeroNflSim)
        r1  == NflFromSim(defaultNFLPlayer, sim, sim.Dk_showdown_points_mean,
                          sim.Dk_showdown_points_list, sim.Dk_showdown_cume_points,
                          s.StartTime)
        pos == LowerAll(Split(s.Position, "/"))
        p1  == IF s.RosterSlotId # 512 THEN Append(pos, TagCpt) ELSE pos
        p2  == IF s.RosterSlotId = 512 THEN Append(p1, TagFlex) ELSE p1
        id  == IF s.RosterSlotId = 512 THEN Itoa(nfl_lookup) \o <<"_", "5", "1", "2">>
               ELSE IF s.RosterSlotId = 511 THEN Itoa(nfl_lookup) \o <<"_", "5", "1", "1">>
               ELSE Itoa(nfl_lookup)
    IN  [rec |-> [r1 EXCEPT
                    !.Nfl_id = id, !.Positions = p2,
                    !.Inlineup = ~HasAttr(s.PlayerGameAttributes, 100, "false"),
                    !.Status = NflStatus(s, s.Status),
                    !.Salary = s.Salary, !.RosterSlotId = s.RosterSlotId,
                    !.Draftable_uid = SprintUid(Itoa(s.PlayerDkId), nfl_lookup, s.Position,
                                                id, s.Salary)],
         fault |-> FALSE, selected |-> 0]

\* DraftKings NFL, Showdown.
DKNflShowdownBody(s) ==
    LET nfl_lookup == Lookup(Itoa(s.PlayerDkId))
        sim == MapGet(nfl_players, Itoa(nfl_lookup), ZeroNflSim)
        r1  == NflFromSim(defaultNFLPlayer, sim, sim.Dk_showdown_points_mean,
                          sim.Dk_showdown_points_list, sim.Dk_showdown_cume_points,
                          s.StartTime)
        pos == LowerAll(Split(s.Position, "/"))
        p1  == IF s.RosterSlotId = 511 THEN Append(pos, TagCpt) ELSE pos
        p2  == IF s.RosterSlotId = 512 THEN Append(p1, TagFlex) ELSE p1
        id  == IF s.RosterSlotId = 512 THEN Itoa(nfl_lookup) \o <<"_", "5", "1", "2">>
               ELSE IF s.RosterSlotId = 511 THEN Itoa(nfl_lookup) \o <<"_", "5", "1", "1">>
               ELSE Itoa(nfl_lookup)
    IN  [rec |-> [r1 EXCEPT
                    !.Nfl_id = id, !.Positions = p2,
                    !.Inlineup = ~HasAttr(s.PlayerGameAttributes, 100, "false"),
                    !.Status = NflStatus(s, s.Status),
                    !.Salary = s.Salary, !.RosterSlotId = s.RosterSlotId,
                    !.Draftable_uid = SprintUid(Itoa(s.PlayerDkId), nfl_lookup, s.Position,
                                                id, s.Salary)],
         fault |-> FALSE, selected |-> 0]

----------------------------------------------------------------------------
(* Specification of the aggregation pass.  The stored listing, the tables   *)
(* and the query of a draft group are fixed; requests for it are served one *)
(* after the other, each a range loop over the listing it decodes.          *)

ReferenceTimes == {10}

Listings(pool) == UNION {[1..k -> pool] : k \in 0..MaxSlots}

PassInit ==
    /\ path \in Paths
    /\ feed \in Listings(PoolOf(path))
    /\ contextTime \in ReferenceTimes
    /\ draftables = <<>> /\ players = <<>>
    /\ pc = "idle" /\ next = 1 /\ requests = 0
    /\ AccumulatorsZero
    /\ gated = <<>> /\ responses = <<>>
    /\ HistIdle /\ SelectorIdle /\ TablesInit /\ ConcIdle /\ StravaIdle

\* mutant: the seen set is a package-level variable that outlives the request
KeysKeptAcrossRequests(previous) == previous

\* var Final...Keys []string, declared inside the handler: empty in every request.
DeclareKeys(previous) == <<>>

\* The handler up to the blocks: the listing is decoded from the stored blob
\* and the request's record variables and accumulators are declared.
StartRequest ==
    /\ pc \in {"idle", "panic"}
    /\ requests < MaxRequests
    /\ requests' = requests + 1
    /\ draftables' = IF path \in DKPaths THEN feed ELSE <<>>
    /\ players' = IF path \in DKPaths THEN <<>> ELSE feed
    /\ FinalPitcher' = ZeroPitcher /\ FinalPitchers' = <<>>
    /\ FinalPitcherKeys' = DeclareKeys(FinalPitcherKeys)
    /\ FinalBatter' = ZeroBatter /\ FinalBatters' = <<>>
    /\ FinalBatterKeys' = DeclareKeys(FinalBatterKeys)
    /\ FinalNFLPlayer' = ZeroNFLPlayer /\ FinalNFLPlayers' = <<>>
    /\ FinalNFLPlayerKeys' = DeclareKeys(FinalNFLPlayerKeys)
    /\ pc' = "loop" /\ next' = 1 /\ gated' = <<>>
    /\ UNCHANGED <<responses, inputVars, histVars, selVars, tableVars, concVars, stravaVars>>

\* The listing the request's block ranges over.
Listing == IF path \in DKPaths THEN draftables ELSE players

InLoop(p) == pc = "loop" /\ path = p /\ next <= Len(Listing)

\* The slot does not pass the block's filter: nothing is written.
SkipSlot ==
    /\ next' = next + 1
    /\ UNCHANGED <<draftables, players, pc, requests, pitcherVars, batterVars, nflVars,
                   gated, responses>>

\* panic(err) or a runtime fault inside the body: the request is aborted and
\* the recovery middleware of gin.Default() answers 500.
Abort ==
    /\ pc' = "panic"
    /\ responses' = Append(responses, [status |-> 500, Data |-> <<>>])
    /\ UNCHANGED <<draftables, players, next, requests, gated>>

Emit(b, eligible, g) ==
    /\ gated' = Append(gated, [slot |-> next, uid |-> b.rec.Draftable_uid,
                               eligible |-> eligible, selected |-> b.selected,
                               appended |-> g.appended])
    /\ next' = next + 1
    /\ UNCHANGED <<pc, requests, responses>>

PitcherStep(b) ==
    /\ FinalPitcher' = b.rec
    /\ UNCHANGED <<batterVars, nflVars>>
    /\ IF b.fault
       THEN Abort /\ UNCHANGED <<FinalPitchers, FinalPitcherKeys>>
       ELSE LET g == Gate(FinalPitcherKeys, FinalPitchers, b.rec, b.rec.ProbablePitcher)
            IN  FinalPitcherKeys' = g.Keys /\ FinalPitchers' = g.Data
                /\ Emit(b, b.rec.ProbablePitcher, g)

BatterStep(b) ==
    /\ FinalBatter' = b.rec
    /\ UNCHANGED <<pitcherVars, nflVars>>
    /\ IF b.fault
       THEN Abort /\ UNCHANGED <<FinalBatters, FinalBatterKeys>>
       ELSE LET g == Gate(FinalBatterKeys, FinalBatters, b.rec, b.rec.Inlineup)
            IN  FinalBatterKeys' = g.Keys /\ FinalBatters' = g.Data
                /\ Emit(b, b.rec.Inlineup, g)

NflStep(b) ==
    /\ FinalNFLPlayer' = b.rec
    /\ UNCHANGED <<pitcherVars, batterVars>>
    /\ IF b.fault
       THEN Abort /\ UNCHANGED <<FinalNFLPlayers, FinalNFLPlayerKeys>>
       ELSE LET g == Gate(FinalNFLPlayerKeys, FinalNFLPlayers, b.rec, b.rec.Inlineup)
            IN  FinalNFLPlayerKeys' = g.Keys /\ FinalNFLPlayers' = g.Data
                /\ Emit(b, b.rec.Inlineup, g)

\* One iteration of the DraftKings pitchers block.
ProcessDKPitcher ==
    /\ InLoop("dk_pitchers")
    /\ LET s == draftables[next]
       IN  IF IsDKPitcherSlot(s)
           THEN PitcherStep(DKPitcherBody(FinalPitcher, s)) /\ UNCHANGED <<draftables, players>>
           ELSE SkipSlot
    /\ UNCHANGED <<inputVars, histVars, selVars, tableVars, concVars, stravaVars>>

\* One iteration of the DraftKings batters block.
ProcessDKBatter ==
    /\ InLoop("dk_batters")
    /\ LET s == draftables[next]
       IN  IF ~IsDKPitcherSlot(s)
           THEN BatterStep(DKBatterBody(FinalBatter, s)) /\ UNCHANGED <<draftables, players>>
           ELSE SkipSlot
    /\ UNCHANGED <<inputVars, histVars, selVars, tableVars, concVars, stravaVars>>

\* FinalX.Positions = s.Positions shares the slot's array, so the lowering
\* loop rewrites the decoded listing in place.
LowerInPlace(b, lowered) ==
    /\ players' = IF b.fault THEN players ELSE [players EXCEPT ![next].Positions = lowered]
    /\ UNCHANGED draftables

\* One iteration of the FanDuel pitchers block.
ProcessFDPitcher ==
    /\ InLoop("fd_pitchers")
    /\ LET s == players[next]
           b == FDPitcherBody(FinalPitcher, s, contextTime)
       IN  IF IsFDPitcherSlot(s)
           THEN PitcherStep(b) /\ LowerInPlace(b, LowerAll(s.Positions))
           ELSE SkipSlot
    /\ UNCHANGED <<inputVars, histVars, selVars, tableVars, concVars, stravaVars>>

\* One iteration of the FanDuel batters block.
ProcessFDBatter ==
    /\ InLoop("fd_batters")
    /\ LET s == players[next]
           b == FDBatterBody(FinalBatter, s, contextTime)
       IN  IF ~IsFDPitcherSlot(s)
           THEN BatterStep(b) /\ LowerInPlace(b, LowerAll(s.Positions))
           ELSE SkipSlot
    /\ UNCHANGED <<inputVars, histVars, selVars, tableVars, concVars, stravaVars>>

\* One iteration of the FanDuel NFL FullRoster block.
ProcessFDNfl ==
    /\ InLoop("fd_nfl")
    /\ LET s == players[next]
           b == FDNflBody(FinalNFLPlayer, s)
       IN  NflStep(b) /\ LowerInPlace(b, LowerAllNfl(s.Positions))
    /\ UNCHANGED <<inputVars, histVars, selVars, tableVars, concVars, stravaVars>>

\* One iteration of the DraftKings NFL Classic block.
ProcessDKNflClassic ==
    /\ InLoop("dk_nfl_classic")
    /\ NflStep(DKNflClassicBody(draftables[next]))
    /\ UNCHANGED <<draftables, players, inputVars, histVars, selVars, tableVars, concVars, stravaVars>>

\* One iteration of the DraftKings NFL Showdown block.
ProcessDKNflShowdown ==
    /\ InLoop("dk_nfl_showdown")
    /\ NflStep(DKNflShowdownBody(draftables[next]))
    /\ UNCHANGED <<draftables, players, inputVars, histVars, selVars, tableVars, concVars, stravaVars>>

\* The Data list of the block the request runs.
Output ==
    IF path \in {"dk_pitchers", "fd_pitchers"} THEN FinalPitchers
    ELSE IF path \in {"dk_batters", "fd_batters"} THEN FinalBatters
    ELSE FinalNFLPlayers

\* The seen set of the block the request runs.
OutputKeys ==
    IF path \in {"dk_pitchers", "fd_pitchers"} THEN FinalPitcherKeys
    ELSE IF path \in {"dk_batters", "fd_batters"} THEN FinalBatterKeys
    ELSE FinalNFLPlayerKeys

\* c.IndentedJSON(http.StatusOK, Final...) after the range loop.
Respond ==
    /\ pc = "loop" /\ next > Len(Listing)
    /\ responses' = Append(responses, [status |-> 200, Data |-> Output])
    /\ pc' = "idle"
    /\ UNCHANGED <<draftables, players, next, requests, pitcherVars, batterVars, nflVars,
                   gated, inputVars, histVars, selVars, tableVars, concVars, stravaVars>>

Next ==
    \/ StartRequest
    \/ ProcessDKPitcher
    \/ ProcessDKBatter
    \/ ProcessFDPitcher
    \/ ProcessFDBatter
    \/ ProcessFDNfl
    \/ ProcessDKNflClassic
    \/ ProcessDKNflShowdown
    \/ Respond

Spec == PassInit /\ [][Next]_vars

----------------------------------------------------------------------------
(* Two concurrent requests for the DraftKings pitchers block.  gin serves   *)
(* each request in its own goroutine; every step below is one iteration of  *)
(* one request's range loop, and the steps of the two requests interleave   *)
(* in any order.                                                            *)

ConcPool ==
    {DKSlot(11, PosSP, 100, 573, AttrIn, 10), DKSlot(12, PosSP, 100, 573, AttrIn, 10),
     DKSlot(11, PosSP, 100, 573, AttrIn, BadTime)}

ConcInit ==
    /\ path = "dk_pitchers" /\ feed = <<>> /\ contextTime \in ReferenceTimes
    /\ draftables = <<>> /\ players = <<>>
    /\ pc = "idle" /\ next = 1 /\ requests = 0
    /\ AccumulatorsZero
    /\ gated = <<>> /\ responses = <<>>
    /\ HistIdle /\ SelectorIdle /\ TablesInit
    /\ passes \in [Goroutines -> [listing : Listings(ConcPool), pc : {"idle"}, next : {1},
                                  response : {NoResponse}, overlapped : {FALSE}]]
    /\ frames = [r \in Goroutines |-> ZeroFrame]
    /\ StravaIdle

\* mutant: the record variable, the output list and the seen set are
\* package-level variables, one copy for all requests
PackageFrame(r) == 1

\* var FinalPitchers ..., var FinalPitcher ..., var FinalPitcherKeys []string
\* are declared inside the handler: one copy per invocation.
Frame(r) == r

\* The other request is inside its range loop.
OtherInLoop(r) == \E o \in Goroutines \ {r} : passes[o].pc = "loop"

\* The handler up to the block: the listing is decoded, the locals declared.
ConcStart(r) ==
    /\ passes[r].pc = "idle"
    /\ passes' = [passes EXCEPT ![r].pc = "loop", ![r].next = 1]
    /\ frames' = [frames EXCEPT ![Frame(r)] = ZeroFrame]
    /\ UNCHANGED <<histVars, selVars, tableVars, inputVars, passVars, stravaVars>>

\* One iteration of the range loop of request r.
ConcStep(r) ==
    /\ passes[r].pc = "loop" /\ passes[r].next <= Len(passes[r].listing)
    /\ LET s == passes[r].listing[passes[r].next]
           f == frames[Frame(r)]
           b == DKPitcherBody(f.FinalPitcher, s)
           g == Gate(f.FinalPitcherKeys, f.FinalPitchers, b.rec, b.rec.ProbablePitcher)
           o == passes[r].overlapped \/ OtherInLoop(r)
       IN  IF ~IsDKPitcherSlot(s)
           THEN /\ passes' = [passes EXCEPT ![r].next = @ + 1, ![r].overlapped = o]
                /\ UNCHANGED frames
           ELSE IF b.fault
           THEN /\ passes' = [passes EXCEPT ![r].pc = "panic", ![r].overlapped = o,
                                            ![r].response = [status |-> 500, Data |-> <<>>]]
                /\ frames' = [frames EXCEPT ![Frame(r)].FinalPitcher = b.rec]
           ELSE /\ passes' = [passes EXCEPT ![r].next = @ + 1, ![r].overlapped = o]
                /\ frames' = [frames EXCEPT ![Frame(r)] =
                                 [FinalPitcher |-> b.rec, FinalPitchers |-> g.Data,
                                  FinalPitcherKeys |-> g.Keys]]
    /\ UNCHANGED <<histVars, selVars, tableVars, inputVars, passVars, stravaVars>>

\* c.IndentedJSON(http.StatusOK, FinalPitchers) of request r.
ConcRespond(r) ==
    /\ passes[r].pc = "loop" /\ passes[r].next > Len(passes[r].listing)
    /\ passes' = [passes EXCEPT ![r].pc = "done",
                                ![r].response = [status |-> 200,
                                                 Data |-> frames[Frame(r)].FinalPitchers]]
    /\ UNCHANGED frames
    /\ UNCHANGED <<histVars, selVars, tableVars, inputVars, passVars, stravaVars>>

ConcNext == \E r \in Goroutines : ConcStart(r) \/ ConcStep(r) \/ ConcRespond(r)

SpecConc == ConcInit /\ [][ConcNext]_vars

----------------------------------------------------------------------------
(* The Strava handler, getStravaData of the service: it refreshes the       *)
(* access token, requests the athlete's activities with it, converts each   *)
(* activity to a FinalActivity and writes the list.  A start_date_local     *)
(* text is the integer instant it denotes, BadTime when it is not RFC 3339. *)
(* A distance is a whole number of metres and miles are kept in millionths. *)

TokenA == <<"t", "A">>
TokenB == <<"t", "B">>

\* The responses of POST /oauth/token: a token document, an error document
\* (a JSON object without access_token) and a body that is not JSON.
RefreshReplies ==
    {[status |-> 200, kind |-> "token", token |-> TokenA],
     [status |-> 200, kind |-> "token", token |-> TokenB],
     [status |-> 401, kind |-> "error", token |-> <<>>],
     [status |-> 502, kind |-> "garbage", token |-> <<>>]}

\* json.NewDecoder(res.Body).Decode(&credsToUse); credsToUse.Access_token.
\* The decode error is dropped, so anything but a token document leaves "".
DecodeToken(reply) == IF reply.kind = "token" THEN reply.token ELSE <<>>

Activity(d, mt, start) ==
    [Distance |-> d, MovingTime |-> mt, StartDate |-> start - 5, StartDateLocal |-> start,
     TimeZone |-> "(GMT-05:00) America/New_York", UtcOffset |-> 0 - 18000]

ActivityPool ==
    {Activity(5000, 1500, 10), Activity(5000, 1530, 11), Activity(5000, 1490, 12),
     Activity(5000, 0, 13), Activity(0, 1500, 14), Activity(0, 0, 15),
     [Activity(5000, 1500, 10) EXCEPT !.StartDateLocal = BadTime]}

\* The responses of GET /athlete/activities.  A request without a valid
\* token is answered with an error document.
ActivitiesReplies(token) ==
    {[status |-> 401, kind |-> "error", acts |-> <<>>]} \cup
    IF token = <<>> THEN {}
    ELSE {[status |-> 502, kind |-> "garbage", acts |-> <<>>]} \cup
         {[status |-> 200, kind |-> "list", acts |-> l] : l \in SeqsUpTo(ActivityPool, MaxActivities)}

\* json.NewDecoder(activities_res.Body).Decode(&athActs), error dropped: an
\* error document or a body that is not JSON leaves the nil slice.
DecodeActivities(reply) == IF reply.kind = "list" THEN reply.acts ELSE <<>>

Bearer(token) == <<"B", "e", "a", "r", "e", "r", " ">> \o token

\* a.Distance * 0.000621371, in millionths of a mile.
MicroMiles(Distance) == Distance * 621 + (Distance * 371) \div 1000

\* time_temp.Unix() of the parsed start_date_local.
UnixOf(start) == start * 3600

MinInt64Text == <<"-", "9", "2", "2", "3", "3", "7", "2", "0", "3", "6", "8", "5", "4", "7",
                  "7", "5", "8", "0", "8">>
MaxInt64Text == <<"9", "2", "2", "3", "3", "7", "2", "0", "3", "6", "8", "5", "4", "7", "7",
                  "5", "8", "0", "8">>

\* %.0f of float64(int(pace)): the conversion to int of a value that is not
\* finite is implementation-dependent; amd64 gives the minimum int64, arm64
\* saturates (+Inf) or gives 0 (NaN).  One value when the pace is finite.
PaceDownTexts(a) ==
    IF MicroMiles(a.Distance) # 0
    THEN {Itoa((a.MovingTime * 1000000) \div (60 * MicroMiles(a.Distance)))}
    ELSE IF a.MovingTime = 0 THEN {MinInt64Text, <<"0">>}
    ELSE {MinInt64Text, MaxInt64Text}

\* %.0f of seconds = math.Round(hanging_decimal * 60), with the "0" the
\* format puts before it when seconds < 10.
SecondsText(a) ==
    LET mm == MicroMiles(a.Distance)
    IN  IF mm = 0
        THEN IF a.MovingTime = 0 THEN <<"N", "a", "N">> ELSE <<"+", "I", "n", "f">>
        ELSE LET rem     == (a.MovingTime * 1000000) % (60 * mm)
                 seconds == (2 * rem + mm) \div (2 * mm)
             IN  (IF seconds < 10 THEN <<"0">> ELSE <<>>) \o Itoa(seconds)

\* One iteration of the range loop over athActs, for an activity whose
\* start_date_local parses; w is the text of pace_down.
ToFinalActivity(a, w) ==
    [Distance |-> a.Distance, MovingTime |-> a.MovingTime, StartDate |-> a.StartDate,
     StartDateLocal |-> a.StartDateLocal, StartDateUnix |-> UnixOf(a.StartDateLocal),
     TimeZone |-> a.TimeZone, UtcOffset |-> a.UtcOffset,
     Miles |-> MicroMiles(a.Distance),
     Minutes |-> FloatDiv(a.MovingTime, 60),
     Pace |-> FloatDiv(a.MovingTime * 1000000, 60 * MicroMiles(a.Distance)),
     DisplayPace |-> w \o <<":">> \o SecondsText(a)]

\* mutant: the error is printed and the handler goes on
GoOnAfterDoError(position) == position

\* if err != nil { fmt.Println(err); return }: the position after a failed
\* client.Do, where position is the one a successful call leads to.
AfterDoError(position) == "returned"

\* gin answers 200 with an empty body when the handler returns without
\* writing.
EmptyAnswer == [status |-> 200, json |-> FALSE, Data |-> <<>>]

StravaBegin ==
    /\ spc = "idle"
    /\ spc' = "refresh"
    /\ UNCHANGED <<upstream, refreshReply, activitiesReply, access_token, athActs, actIdx,
                   finalActs, written>>
    /\ UNCHANGED <<histVars, selVars, tableVars, inputVars, passVars, concVars>>

\* client.Do(refresh_req), the decode of its body and access_token.
SendRefresh ==
    /\ spc = "refresh"
    /\ upstream' = Append(upstream, [call |-> "refresh", bearer |-> <<>>])
    /\ \/ /\ spc' = AfterDoError("activities")
          /\ written' = IF spc' = "returned" THEN EmptyAnswer ELSE written
          /\ UNCHANGED <<refreshReply, access_token>>
       \/ \E reply \in RefreshReplies :
             /\ refreshReply' = reply
             /\ access_token' = DecodeToken(reply)
             /\ spc' = "activities"
             /\ UNCHANGED written
    /\ UNCHANGED <<activitiesReply, athActs, actIdx, finalActs>>
    /\ UNCHANGED <<histVars, selVars, tableVars, inputVars, passVars, concVars>>

\* client.Do(activities_req) with the Authorization header, and the decode
\* of its body into athActs.
SendActivities ==
    /\ spc = "activities"
    /\ upstream' = Append(upstream, [call |-> "activities", bearer |-> Bearer(access_token)])
    /\ \/ /\ spc' = AfterDoError("convert")
          /\ written' = IF spc' = "returned" THEN EmptyAnswer ELSE written
          /\ UNCHANGED <<activitiesReply, athActs>>
       \/ \E reply \in ActivitiesReplies(access_token) :
             /\ activitiesReply' = reply
             /\ athActs' = DecodeActivities(reply)
             /\ spc' = "convert"
             /\ UNCHANGED written
    /\ actIdx' = 1
    /\ UNCHANGED <<refreshReply, access_token, finalActs>>
    /\ UNCHANGED <<histVars, selVars, tableVars, inputVars, passVars, concVars>>

\* mutant: an activity whose start_date_local does not parse is skipped
SkipUnparsed(start) == "convert"

\* if err != nil { fmt.Println(err.Error()); panic(err) }: the position after
\* time.Parse has rejected the text.
AfterParseError(start) == "panic"

\* One iteration of for _, a := range athActs.  panic(err) is recovered by
\* the middleware of gin.Default(), which answers 500.
ConvertActivity ==
    /\ spc = "convert" /\ actIdx <= Len(athActs)
    /\ LET a == athActs[actIdx]
       IN  IF a.StartDateLocal = BadTime
           THEN /\ spc' = AfterParseError(a.StartDateLocal)
                /\ written' = IF spc' = "panic"
                              THEN [status |-> 500, json |-> FALSE, Data |-> <<>>]
                              ELSE written
                /\ actIdx' = IF spc' = "panic" THEN actIdx ELSE actIdx + 1
                /\ UNCHANGED finalActs
           ELSE /\ \E w \in PaceDownTexts(a) :
                      finalActs' = Append(finalActs, ToFinalActivity(a, w))
                /\ actIdx' = actIdx + 1
                /\ UNCHANGED <<spc, written>>
    /\ UNCHANGED <<upstream, refreshReply, activitiesReply, access_token, athActs>>
    /\ UNCHANGED <<histVars, selVars, tableVars, inputVars, passVars, concVars>>

\* encoding/json rejects a float that is not finite.
Encodable(data) == \A i \in DOMAIN data : data[i].Pace.den # 0

\* c.IndentedJSON(http.StatusOK, finalActs).  When the list cannot be
\* encoded no body is written; the status is 500 or 200 with the version of
\* gin (the render error is a panic or is recorded on the context).
StravaRespond ==
    /\ spc = "convert" /\ actIdx > Len(athActs)
    /\ spc' = "done"
    /\ IF Encodable(finalActs)
       THEN written' = [status |-> 200, json |-> TRUE, Data |-> finalActs]
       ELSE written' \in {[status |-> 500, json |-> FALSE, Data |-> <<>>], EmptyAnswer}
    /\ UNCHANGED <<upstream, refreshReply, activitiesReply, access_token, athActs, actIdx,
                   finalActs>>
    /\ UNCHANGED <<histVars, selVars, tableVars, inputVars, passVars, concVars>>

StravaInit ==
    /\ StravaIdle
    /\ HistIdle /\ SelectorIdle /\ TablesInit /\ PassIdle /\ ConcIdle

StravaNext ==
    \/ StravaBegin
    \/ SendRefresh
    \/ SendActivities
    \/ ConvertActivity
    \/ StravaRespond

SpecStrava == StravaInit /\ [][StravaNext]_vars

----------------------------------------------------------------------------
(* Claims about the histogram builder.                                      *)

RECURSIVE SumSeq(_)
SumSeq(s) == IF s = <<>> THEN 0 ELSE Head(s) + SumSeq(Tail(s))

\* C4: for every sample, the empty one included, the 8 bucket counts of the
\* histogram built from it sum to the length of the sample.
C4_Conservation ==
    hist # <<>> => (Len(hist) = 8 /\ SumSeq(hist) = Len(sample))

C4_Witness ==
    /\ hist # <<>>
    /\ Len(sample) = MaxSampleLen
    /\ \E i \in DOMAIN sample : sample[i] = 60
    /\ \E i \in DOMAIN sample : sample[i] = 0

C4_WitnessEmpty == hist # <<>> /\ sample = <<>>

\* The bucket the claim assigns to a score, stated from the interval bounds.
ClaimedBucket(v) ==
    IF v <= 0 THEN 0
    ELSE IF v >= 60 THEN 7
    ELSE CHOOSE k \in 1..6 : 10 * (k - 1) <= v /\ v < 10 * k

ExampleSample == <<0 - 5, 0, 9, 15, 61>>

\* C5: each score v is counted in bucket 0 if v <= 0, bucket k (1..6) if
\* 10(k-1) <= v < 10k, bucket 7 if v >= 60; exactly 0 goes to bucket 0 and
\* exactly 60 to bucket 7; the sample [-5,0,9,15,61] gives [2,1,1,0,0,0,0,1].
C5_BucketAssignment ==
    hist # <<>> =>
        /\ \A k \in 0..7 :
              hist[k + 1] = Cardinality({i \in DOMAIN sample : ClaimedBucket(sample[i]) = k})
        /\ (sample = <<0>>) => hist = <<1, 0, 0, 0, 0, 0, 0, 0>>
        /\ (sample = <<60>>) => hist = <<0, 0, 0, 0, 0, 0, 0, 1>>
        /\ (sample = ExampleSample) => hist = <<2, 1, 1, 0, 0, 0, 0, 1>>

C5_Witness == hist # <<>> /\ sample = ExampleSample

----------------------------------------------------------------------------
(* Claims about the game selector.                                          *)

\* The ledger positions whose timestamp plus one hour is strictly after ref.
Matching == {i \in DOMAIN games : games[i].GameDate # BadTime /\ games[i].GameDate + 1 > ref}

FirstMatching == CHOOSE i \in Matching : \A j \in Matching : i <= j

\* C6: the selector returns the first entry in ledger order whose game
\* timestamp plus one hour is strictly after the reference (an adjusted time
\* equal to the reference is not selected), and no entry after the first
\* match is examined or contributes to the record.
C6_FirstMatch ==
    (sel.done /\ ~sel.fault) =>
        /\ (Matching = {}) =>
              /\ sel.selected = 0
              /\ sel.scanned = Len(games)
              /\ sel.rec.Game_gameDate = EmptyDate
        /\ (Matching # {}) =>
              /\ sel.selected = FirstMatching
              /\ sel.scanned = FirstMatching
              /\ sel.rec.Game_gameDate = games[FirstMatching].GameDate
              /\ sel.rec.Game_venue = games[FirstMatching].Venue
              /\ sel.rec.ProjPoints = games[FirstMatching].Draftkings_proj_points
              /\ sel.rec.Games_sim_cume_points = games[FirstMatching].Draftkings_cume_points
              /\ sel.rec.ProjPointsList = Histogram(games[FirstMatching].Dk_points_list)

\* An entry whose adjusted time equals the reference was passed over, the next
\* entry was selected and one more entry follows it.
C6_Witness ==
    /\ sel.done /\ ~sel.fault
    /\ Len(games) = 3
    /\ games[1].GameDate + 1 = ref
    /\ sel.selected = 2
    /\ games[3].GameDate # BadTime /\ games[3].GameDate + 1 > ref

----------------------------------------------------------------------------
(* Claims about the aggregation pass.                                       *)

Last(q) == q[Len(q)]

\* The record variable of the block the request runs.
CurrentRecord ==
    IF path \in {"dk_pitchers", "fd_pitchers"} THEN FinalPitcher
    ELSE IF path \in {"dk_batters", "fd_batters"} THEN FinalBatter
    ELSE FinalNFLPlayer

\* The lineup-eligibility flag of an output record.
Flag(rec) == IF path \in {"dk_pitchers", "fd_pitchers"} THEN rec.ProbablePitcher ELSE rec.Inlineup

\* C1: within one pass, after any prefix of the listing has been processed,
\* no two records of the output list share a DraftableUID.
C1_UniqueUids ==
    \A i, j \in DOMAIN Output :
        i # j => Output[i].Draftable_uid # Output[j].Draftable_uid

\* Two eligible slots with the same UID have been gated: the first was
\* appended, the second was not.
C1_Witness ==
    \E j, k \in DOMAIN gated :
        /\ j < k /\ gated[j].uid = gated[k].uid
        /\ gated[j].appended /\ gated[k].eligible /\ ~gated[k].appended

\* C2: an entry whose eligibility flag (Inlineup, or ProbablePitcher for
\* pitchers) is false is never in the output, whether or not its UID has
\* been seen before.
C2_IneligibleNeverEmitted ==
    /\ \A k \in DOMAIN gated : ~gated[k].eligible => ~gated[k].appended
    /\ \A i \in DOMAIN Output : Flag(Output[i])
    /\ Len(Output) = Cardinality({k \in DOMAIN gated : gated[k].appended})

\* An ineligible slot with an unseen UID went through the gate, and in the
\* same listing an eligible slot was appended.
C2_Witness ==
    \E j, k \in DOMAIN gated :
        /\ ~gated[j].eligible /\ ~implContains(OutputKeys, gated[j].uid)
        /\ gated[k].eligible /\ gated[k].appended

\* C3 as stated: of two entries of a listing that produce the same UID, the
\* later one never appears in the output.
C3_LaterNeverAppears ==
    \A j, k \in DOMAIN gated :
        (j < k /\ gated[j].uid = gated[k].uid) => ~gated[k].appended

\* C3 (amended): an entry appears in the output exactly when it is eligible
\* and no earlier eligible entry of the listing produced the same UID; an
\* earlier ineligible entry with the same UID does not keep it out.
C3_FirstEligibleOnly ==
    \A k \in DOMAIN gated :
        gated[k].appended <=>
            /\ gated[k].eligible
            /\ \A j \in DOMAIN gated :
                  (j < k /\ gated[j].uid = gated[k].uid) => ~gated[j].eligible

\* An ineligible entry is followed by an eligible one with the same UID,
\* which is appended.
C3_Witness ==
    \E j, k \in DOMAIN gated :
        /\ j < k /\ gated[j].uid = gated[k].uid
        /\ ~gated[j].eligible /\ gated[k].appended

\* The captain slot and the flex/utility slot of the showdown formats.
IsCaptainSlot(s) == s.RosterSlotId \in {511, 573}
IsFlexSlot(s) == s.RosterSlotId \in {512, 574}

\* C7: in a showdown pass, a captain entry and a flex/utility entry of the
\* same athlete, both eligible, get different UIDs and both appear in the
\* output, for every canonical id (0 included) and every pair of salaries
\* (equal ones included).
C7_ShowdownDistinct ==
    path \in {"dk_nfl_showdown", "dk_pitchers", "dk_batters"} =>
        \A j, k \in DOMAIN gated :
            LET a == Listing[gated[j].slot]
                b == Listing[gated[k].slot]
            IN  (/\ IsCaptainSlot(a) /\ IsFlexSlot(b)
                 /\ a.PlayerDkId = b.PlayerDkId
                 /\ gated[j].eligible /\ gated[k].eligible)
                => /\ gated[j].uid # gated[k].uid
                   /\ gated[j].appended /\ gated[k].appended

\* The slot's provider id has no crosswalk entry.
Unresolved(s) ==
    IF path \in DKPaths THEN Itoa(s.PlayerDkId) \notin DOMAIN Keys
    ELSE Len(Split(s.Id, "-")) >= 2 /\ Split(s.Id, "-")[2] \notin DOMAIN Keys

\* The slot the block processed last is the one before next.
JustGated == gated # <<>> /\ Last(gated).slot = next - 1 /\ pc = "loop"

\* C8: an entry whose provider id has no crosswalk mapping raises no fault,
\* its record has opponent, venue, game date and the three odds fields at
\* zero/empty, and the later slots are still processed.
C8_UnresolvedDefaults ==
    /\ (pc = "panic" /\ next <= Len(Listing)) => ~Unresolved(Listing[next])
    /\ (JustGated /\ Unresolved(Listing[next - 1])) =>
          /\ CurrentRecord.Game_opponent = 0
          /\ CurrentRecord.Game_venue = 0
          /\ CurrentRecord.Game_gameDate \in {EmptyDate, NoneDate}
          /\ CurrentRecord.Game_team_oddspoints = 0
          /\ CurrentRecord.Game_opponent_oddspoints = 0
          /\ CurrentRecord.Game_player_oddsfactor = ZeroFactor

\* C9: when no ledger entry of the athlete is selected, the record is still
\* assembled and gated, and its game date, projected points, histogram,
\* cumulative points, opponent, venue and odds fields hold their zero/empty
\* defaults, not values of a ledger entry or of an earlier slot.
C9_NoMatchDefaults ==
    (/\ path \in {"dk_pitchers", "dk_batters", "fd_pitchers", "fd_batters"}
     /\ JustGated /\ Last(gated).selected = 0) =>
        /\ CurrentRecord.Game_gameDate = EmptyDate
        /\ CurrentRecord.ProjPoints = 0
        /\ CurrentRecord.ProjPointsList \in {<<>>, ZeroCounters}
        /\ CurrentRecord.Games_sim_cume_points = 0
        /\ CurrentRecord.Game_opponent = 0
        /\ CurrentRecord.Game_venue = 0
        /\ CurrentRecord.Game_team_oddspoints = 0
        /\ CurrentRecord.Game_opponent_oddspoints = 0
        /\ CurrentRecord.Game_player_oddsfactor = ZeroFactor

\* C10: two passes on identical inputs (listing, tables, reference time,
\* sport and service) write the same output: the same records with the same
\* field values in the same order.
C10_Idempotent ==
    \A i, j \in DOMAIN responses : responses[i] = responses[j]

\* Two requests of a FanDuel block (which rewrites the decoded positions in
\* place) have completed, each with two records.
C10_Witness ==
    /\ path = "fd_batters"
    /\ Len(responses) = 2
    /\ responses[1].status = 200 /\ Len(responses[1].Data) = 2
    /\ responses[2].status = 200

\* The history entries of the slots whose record was appended, in listing order.
AppendedSlots == SelectSeq(gated, LAMBDA g : g.appended)

\* s is a prefix of q.
IsPrefix(s, q) == Len(s) <= Len(q) /\ SubSeq(q, 1, Len(s)) = s

\* C11: the output list is an order-preserving subsequence of the listing:
\* the k-th output record is the record of the k-th appended slot, slots
\* appear in listing order, and within a pass the list only grows at its end
\* (no record is reordered or removed).
C11_OrderPreserved ==
    /\ [](/\ Len(Output) = Len(AppendedSlots)
          /\ \A k \in DOMAIN Output :
                /\ Output[k].Draftable_uid = AppendedSlots[k].uid
                /\ Output[k].Salary = Listing[AppendedSlots[k].slot].Salary
          /\ \A j, k \in DOMAIN AppendedSlots :
                j < k => AppendedSlots[j].slot < AppendedSlots[k].slot)
    /\ [][pc = "loop" => IsPrefix(Output, Output')]_vars

\* Two records with different UIDs have been appended, the second one from
\* the second slot of the listing.
C11_Witness ==
    /\ Len(Output) = 2
    /\ Output[1].Draftable_uid # Output[2].Draftable_uid
    /\ AppendedSlots[2].slot = 2

\* The lineup-eligibility flag a listing entry carries.
SlotEligible(s) ==
    CASE path = "dk_pitchers" -> HasAttr(s.PlayerGameAttributes, 1, "true")
      [] path = "fd_pitchers" -> s.Probable_pitcher
      [] path \in {"fd_batters", "fd_nfl"} -> s.Draftable
      [] OTHER -> ~HasAttr(s.PlayerGameAttributes, 100, "false")

NoSlotEligible == \A i \in DOMAIN feed : ~SlotEligible(feed[i])

\* C12: when no slot of the listing is eligible, the pass never faults and
\* returns an empty projection list, whatever the tables hold.
C12_EmptyNeverFaults ==
    (requests > 0 /\ NoSlotEligible) =>
        /\ pc # "panic"
        /\ pc = "idle" => Last(responses) = [status |-> 200, Data |-> <<>>]

\* The slot passes the position filter of the request's block.
PassesFilter(s) ==
    CASE path = "dk_pitchers" -> IsDKPitcherSlot(s)
      [] path = "dk_batters"  -> ~IsDKPitcherSlot(s)
      [] path = "fd_pitchers" -> IsFDPitcherSlot(s)
      [] path = "fd_batters"  -> ~IsFDPitcherSlot(s)
      [] OTHER -> TRUE

\* A slot of a DraftKings MLB block whose slate-start timestamp does not parse.
BadTimestampSlot(s) ==
    path \in {"dk_pitchers", "dk_batters"} /\ PassesFilter(s) /\ s.StartTime = BadTime

\* C13: a timestamp that does not parse, met while processing one slot, does
\* not abort the batch: the pass is not stopped at that slot, and if nothing
\* else stops it the record of every other eligible slot reaches the output.
C13_BadTimestampIsolated ==
    /\ pc = "panic" => ~BadTimestampSlot(Listing[next])
    /\ (requests > 0 /\ pc \in {"idle", "panic"}
        /\ (pc = "panic" => BadTimestampSlot(Listing[next]))) =>
          \A j \in DOMAIN Listing :
              (PassesFilter(Listing[j]) /\ SlotEligible(Listing[j])
               /\ ~BadTimestampSlot(Listing[j])) =>
                  \E k \in DOMAIN gated :
                      gated[k].slot = j /\ implContains(OutputKeys, gated[k].uid)

----------------------------------------------------------------------------
(* Claims about the odds enricher (team 3 against team 4).                  *)

TeamOdds == MapGet(oddsDat, T3, ZeroOdds).Games
OpponentOdds == MapGet(oddsDat, T4, ZeroOdds).Games
TeamAverage == MapGet(TeamKeys, T3, ZeroTeamPoints).Avg_points

\* The entries of the team's odds sequence that commence before the adjusted
\* time of ledger entry i.
Qualifying(i) == {k \in DOMAIN TeamOdds : games[i].GameDate + 1 > TeamOdds[k].Commence_time}

\* The scanned ledger entries for which entry 0 of the odds sequence qualifies.
ScannedWithEntryZero == {i \in 1..sel.scanned : 1 \in Qualifying(i)}

OddsFieldsZero(rec) ==
    /\ rec.Game_team_oddspoints = 0
    /\ rec.Game_opponent_oddspoints = 0
    /\ rec.Game_player_oddsfactor = ZeroFactor

\* C14: when the team's average is zero, or the team is absent from the Team
\* Average Table, and an odds entry qualifies, the player odds factor of the
\* record is 0 (no fault, no undefined value).
C14_ZeroAverageGuarded ==
    (sel.done /\ ~sel.fault /\ TeamAverage = 0 /\ ScannedWithEntryZero # {}) =>
        sel.rec.Game_player_oddsfactor = ZeroFactor

----------------------------------------------------------------------------
(* Claims about the seen set.                                               *)

\* C15: after every step of the pass the seen-UID collection holds exactly
\* the UIDs of the output records, one each and in the same order, which are
\* the UIDs of the eligible slots processed so far; a UID is added if and
\* only if a record is appended in the same step.
C15_SeenSetExact ==
    /\ [](/\ Len(OutputKeys) = Len(Output)
          /\ \A i \in DOMAIN Output : OutputKeys[i] = Output[i].Draftable_uid
          /\ \A i, j \in DOMAIN OutputKeys : i # j => OutputKeys[i] # OutputKeys[j]
          /\ {OutputKeys[i] : i \in DOMAIN OutputKeys}
                = {gated[k].uid : k \in {n \in DOMAIN gated : gated[n].eligible}})
    /\ [][(OutputKeys' # OutputKeys) <=> (Output' # Output)]_vars

\* Two kinds of slot have gone through the gate in one pass: an eligible
\* one that was appended and an ineligible one that was not.
C15_Witness ==
    /\ Len(gated) = 2 /\ Len(OutputKeys) = 1
    /\ \E k \in DOMAIN gated : ~gated[k].eligible
    /\ \E k \in DOMAIN gated : gated[k].appended

----------------------------------------------------------------------------
(* Claims about the ledger order.                                           *)

\* The ledger is in ascending order of game timestamp (over the entries whose
\* timestamp parses).
Ascending ==
    \A i, j \in DOMAIN games :
        (i < j /\ games[i].GameDate # BadTime /\ games[j].GameDate # BadTime)
            => games[i].GameDate <= games[j].GameDate

\* The earliest game timestamp among the entries whose adjusted time is after
\* the reference.
EarliestMatch ==
    CHOOSE d \in {games[i].GameDate : i \in Matching} :
        \A i \in Matching : d <= games[i].GameDate

\* C16: on a ledger in ascending timestamp order the first-match selector
\* returns the entry with the earliest timestamp among those after the
\* reference; a result that differs from that entry therefore comes from a
\* ledger that is not ascending, and the selector raises no error for it.
C16_AscendingEarliest ==
    (sel.done /\ ~sel.fault /\ Matching # {}) =>
        /\ sel.selected \in Matching
        /\ Ascending => sel.rec.Game_gameDate = EarliestMatch
        /\ sel.rec.Game_gameDate # EarliestMatch => ~Ascending

\* A ledger that is not ascending: the selector has returned, without a
\* fault, an entry later than the earliest one after the reference.
C16_Witness ==
    /\ sel.done /\ ~sel.fault /\ Matching # {}
    /\ ~Ascending
    /\ sel.rec.Game_gameDate > EarliestMatch

\* An ascending ledger with an entry before the reference and two after it.
C16_AscendingCase ==
    /\ sel.done /\ ~sel.fault /\ Ascending
    /\ Len(games) = 3 /\ Cardinality(Matching) = 2
    /\ games[2].GameDate < games[3].GameDate
    /\ sel.selected = 2

----------------------------------------------------------------------------
(* Claims about the Odds Enricher.                                          *)

\* The first entry of the team's odds sequence that commences before the
\* adjusted time of ledger entry i.
FirstQualifying(i) == CHOOSE k \in Qualifying(i) : \A j \in Qualifying(i) : k <= j

\* C17: the team's projected points of the record are the implied points of
\* the first entry of the team's odds sequence whose commence timestamp is
\* before the adjusted timestamp of the game, entries before it that do not
\* qualify being passed over.
C17_FirstQualifyingEntry ==
    (sel.done /\ ~sel.fault /\ sel.selected # 0 /\ Qualifying(sel.selected) # {}) =>
        sel.rec.Game_team_oddspoints = TeamOdds[FirstQualifying(sel.selected)].Points

\* C18: only entry 0 of the team's odds sequence is read.  Team odds points
\* that are set are the implied points of entry 0 and the factor is their
\* quotient by the team's average; after a pass without fault the opponent
\* odds points are those of the opponent's entry 0; and when entry 0
\* qualifies for no scanned game the three fields keep their zero values,
\* whatever the entries at index 1 and beyond are.
C18_OnlyEntryZero ==
    sel.done =>
        IF ScannedWithEntryZero = {}
        THEN OddsFieldsZero(sel.rec) /\ ~sel.fault
        ELSE /\ sel.rec.Game_team_oddspoints = TeamOdds[1].Points
             /\ sel.rec.Game_player_oddsfactor = FloatDiv(TeamOdds[1].Points, TeamAverage)
             /\ IF sel.fault
                THEN OpponentOdds = <<>> /\ sel.rec.Game_opponent_oddspoints = 0
                ELSE sel.rec.Game_opponent_oddspoints = OpponentOdds[1].Points

\* Entry 0 qualifies for no scanned game while entry 1 qualifies for one and
\* the opponent has an entry at index 1: the odds fields are still zero.
C18_Witness ==
    /\ sel.done /\ ~sel.fault /\ sel.scanned >= 1
    /\ Len(TeamOdds) = 2 /\ Len(OpponentOdds) = 2
    /\ ScannedWithEntryZero = {}
    /\ \E i \in 1..sel.scanned : 2 \in Qualifying(i)
    /\ OddsFieldsZero(sel.rec)

\* C19: the odds fields of the record are zero or come from the selected
\* game: they are zero when no game is selected and when no odds entry
\* commences before the selected game's adjusted time.
C19_OddsFromSelectedOnly ==
    (sel.done /\ ~sel.fault) =>
        /\ sel.selected = 0 => OddsFieldsZero(sel.rec)
        /\ (sel.selected # 0 /\ 1 \notin Qualifying(sel.selected)) => OddsFieldsZero(sel.rec)

\* C20: the read of the opponent's odds entry stays inside the opponent's
\* sequence: a pass over a ledger whose timestamps all parse does not fault
\* when the opponent has no odds entries or is absent from the table.
C20_OpponentLookupSafe ==
    (sel.done /\ OpponentOdds = <<>> /\ \A i \in DOMAIN games : games[i].GameDate # BadTime)
        => ~sel.fault

----------------------------------------------------------------------------
(* Claims about the independence of the slots.                              *)

\* The record the block's body assembles for slot s when nothing was
\* processed before it: the record variable still holds its declared value.
AssembledAlone(s) ==
    CASE path = "dk_pitchers"     -> DKPitcherBody(ZeroPitcher, s).rec
      [] path = "dk_batters"      -> DKBatterBody(ZeroBatter, s).rec
      [] path = "fd_pitchers"     -> FDPitcherBody(ZeroPitcher, s, contextTime).rec
      [] path = "fd_batters"      -> FDBatterBody(ZeroBatter, s, contextTime).rec
      [] path = "fd_nfl"          -> FDNflBody(ZeroNFLPlayer, s).rec
      [] path = "dk_nfl_classic"  -> DKNflClassicBody(s).rec
      [] OTHER                    -> DKNflShowdownBody(s).rec

\* C21: the record assembled for a slot is the same in every field whatever
\* slots precede it in the listing: it is the record assembled for the slot
\* when it stands first.
C21_SlotIndependent ==
    JustGated => CurrentRecord = AssembledAlone(feed[next - 1])

----------------------------------------------------------------------------
(* Claims about the incoming listing.                                       *)

\* C22: the pass leaves the incoming listing unchanged: during and after the
\* pass every entry of the decoded listing holds the position list, salary,
\* ids and flags it was decoded with.
C22_ListingUnchanged ==
    requests > 0 => Listing = feed

----------------------------------------------------------------------------
(* Claims about concurrent passes.                                          *)

\* The response of the DraftKings pitchers block for a listing served alone:
\* the range loop folded from the declared locals.
RECURSIVE RunFrom(_, _, _)
RunFrom(listing, i, f) ==
    IF i > Len(listing) THEN [status |-> 200, Data |-> f.FinalPitchers]
    ELSE IF ~IsDKPitcherSlot(listing[i]) THEN RunFrom(listing, i + 1, f)
    ELSE LET b == DKPitcherBody(f.FinalPitcher, listing[i])
             g == Gate(f.FinalPitcherKeys, f.FinalPitchers, b.rec, b.rec.ProbablePitcher)
         IN  IF b.fault THEN [status |-> 500, Data |-> <<>>]
             ELSE RunFrom(listing, i + 1,
                          [FinalPitcher |-> b.rec, FinalPitchers |-> g.Data,
                           FinalPitcherKeys |-> g.Keys])

RunAlone(listing) == RunFrom(listing, 1, ZeroFrame)

\* C23: the seen set and the output list belong to one pass.  Each pass
\* starts with both empty, and when the steps of two passes interleave in any
\* order the response of each is the response it gives when run alone.
C23_PassesIndependent ==
    \A r \in Goroutines :
        /\ (passes[r].pc = "loop" /\ passes[r].next = 1) =>
              /\ frames[Frame(r)].FinalPitcherKeys = <<>>
              /\ frames[Frame(r)].FinalPitchers = <<>>
        /\ passes[r].pc \in {"done", "panic"} =>
              passes[r].response = RunAlone(passes[r].listing)

\* Both requests have answered 200 with a record of the same UID, and each
\* took a step of its loop while the other was inside its own.
C23_Witness ==
    /\ \A r \in Goroutines :
          /\ passes[r].pc = "done" /\ passes[r].overlapped
          /\ Len(passes[r].response.Data) = 1
    /\ passes[1].response.Data[1].Draftable_uid = passes[2].response.Data[1].Draftable_uid

----------------------------------------------------------------------------
(* Claims about the position tags and the injury status.                    *)

\* The position strings of a listing entry, as the listing gives them.
SlotPositions(s) == IF path \in DKPaths THEN Split(s.Position, "/") ELSE s.Positions

IsLowercase(str) == \A i \in DOMAIN str : \A k \in DOMAIN Upper : str[i] # Upper[k]

FlexBase == {<<"r", "b">>, <<"w", "r">>, <<"t", "e">>, <<"p", "k">>, <<"k">>}

\* The number of elements of ps equal to x.
Count(ps, x) == Cardinality({i \in DOMAIN ps : ps[i] = x})

SpecialTags(rec) == {tag \in {TagCpt, TagUtil, TagFlex} : implContains(rec.Positions, tag)}

\* C25: in the showdown blocks the special tag depends on the roster-slot id
\* alone.  An NFL record holds "cpt" and the id suffix "_511" exactly when
\* its slot id is 511, "flex" and the suffix "_512" exactly when it is 512;
\* a pitcher record holds "cpt" exactly when its slot id is 573 and "util"
\* exactly when it is 574; with any other slot id the record holds no
\* special tag and its id is the canonical id.
C25_ShowdownTags ==
    /\ (JustGated /\ path = "dk_nfl_showdown") =>
          LET s   == feed[next - 1]
              rec == CurrentRecord
              id  == Itoa(Lookup(Itoa(s.PlayerDkId)))
          IN  /\ SpecialTags(rec) = (IF s.RosterSlotId = 511 THEN {TagCpt}
                                     ELSE IF s.RosterSlotId = 512 THEN {TagFlex} ELSE {})
              /\ rec.Nfl_id = (IF s.RosterSlotId = 511 THEN id \o <<"_", "5", "1", "1">>
                               ELSE IF s.RosterSlotId = 512 THEN id \o <<"_", "5", "1", "2">>
                               ELSE id)
    /\ (JustGated /\ path = "dk_pitchers") =>
          LET s   == feed[next - 1]
              rec == CurrentRecord
          IN  /\ SpecialTags(rec) = (IF s.RosterSlotId = 573 THEN {TagCpt}
                                     ELSE IF s.RosterSlotId = 574 THEN {TagUtil} ELSE {})
              /\ s.RosterSlotId \notin {573, 574} => rec.Mlb_id = Lookup(Itoa(s.PlayerDkId))

\* A pitcher entry with a slot id other than 573 and 574 has been processed
\* right after a captain entry: its record has no special tag and the
\* canonical id of its athlete.
C25_Witness ==
    /\ JustGated /\ path = "dk_pitchers" /\ next = 3
    /\ feed[1].RosterSlotId = 573 /\ feed[2].RosterSlotId = 0
    /\ SpecialTags(CurrentRecord) = {} /\ CurrentRecord.Mlb_id = 2

\* A team-defense entry, as the blocks recognise it.
TeamDefense(s) == s.Position = PosD \/ s.Position = PosDEF

\* The status the listing reports for an entry.
ListedStatus(s) ==
    IF path \in DKPaths THEN s.Status
    ELSE IF s.Injured THEN s.Injury_status ELSE "None"

\* C26: the record of a team-defense entry has the injury status "None"
\* whatever the listing reports, and the record of every other entry has the
\* status the listing reports (FanDuel: the injury status when the injured
\* flag is set, "None" otherwise).
C26_DefenseStatus ==
    JustGated =>
        CurrentRecord.Status =
            IF TeamDefense(feed[next - 1]) THEN "None" ELSE ListedStatus(feed[next - 1])

\* A team-defense entry the listing reports as "Q" has been processed and
\* its record says "None".
C26_Witness ==
    /\ JustGated
    /\ TeamDefense(feed[next - 1]) /\ ListedStatus(feed[next - 1]) = "Q"
    /\ CurrentRecord.Status = "None"

\* An entry that is not a team defense and is reported as "Q" keeps "Q".
C26_OtherEntryCase ==
    /\ JustGated
    /\ ~TeamDefense(feed[next - 1]) /\ ListedStatus(feed[next - 1]) = "Q"
    /\ CurrentRecord.Status = "Q"

----------------------------------------------------------------------------
(* Claims about the Strava handler.                                         *)

\* C27: the steps of one request are strictly ordered.  The activities
\* request is sent only after the token-refresh response has been received
\* and decoded, and its bearer token is the access token of that response;
\* when sending an upstream request fails the handler returns: no later
\* upstream request is sent and no JSON body is written.
C27_StepsOrdered ==
    /\ [](/\ Len(upstream) <= 2
          /\ \A i \in DOMAIN upstream :
                upstream[i].call = "activities" =>
                    /\ i = 2 /\ upstream[1].call = "refresh"
                    /\ refreshReply \in RefreshReplies
                    /\ refreshReply.kind = "token" =>
                          upstream[i].bearer = Bearer(refreshReply.token)
          /\ spc = "returned" =>
                /\ ~written.json /\ written.Data = <<>>
                /\ Last(upstream).call = "refresh" => refreshReply = NoReply
                /\ Last(upstream).call = "activities" => activitiesReply = NoReply)
    /\ [][spc = "returned" => (upstream' = upstream /\ written' = written)]_vars

\* The refresh was answered with token B, the activities request was sent
\* with that token and failed, and the handler returned without a body.
C27_Witness ==
    /\ spc = "returned"
    /\ refreshReply.kind = "token" /\ refreshReply.token = TokenB
    /\ Len(upstream) = 2 /\ upstream[2] = [call |-> "activities", bearer |-> Bearer(TokenB)]
    /\ ~written.json

\* C28: the handler answers 200 with activity data only when both upstream
\* calls succeeded.  When the token refresh is rejected (error status or a
\* body that does not decode, so that the access token is empty) the
\* activities request is not sent with an empty bearer token, and when
\* either response fails to decode the answer is not 200 with a data list.
C28_BothCallsSucceeded ==
    /\ \A i \in DOMAIN upstream :
          upstream[i].call = "activities" => upstream[i].bearer # Bearer(<<>>)
    /\ (written.status = 200 /\ written.json) =>
          (refreshReply.kind = "token" /\ activitiesReply.kind = "list")

\* The fields a FinalActivity copies from its activity.
Copied(f) ==
    [Distance |-> f.Distance, MovingTime |-> f.MovingTime, StartDate |-> f.StartDate,
     StartDateLocal |-> f.StartDateLocal, TimeZone |-> f.TimeZone, UtcOffset |-> f.UtcOffset]

AllParse(acts) == \A i \in DOMAIN acts : acts[i].StartDateLocal # BadTime

\* C29: for a list of activities whose start_date_local all parse, the data
\* list of the handler holds one FinalActivity per activity, in the same
\* order, with distance, moving time, start dates, timezone and UTC offset
\* copied unchanged; when a start_date_local does not parse the handler
\* panics and writes no data for any activity.
C29_OnePerActivity ==
    activitiesReply.kind = "list" =>
        LET acts == activitiesReply.acts
        IN  /\ spc = "done" =>
                  /\ AllParse(acts)
                  /\ Len(finalActs) = Len(acts)
                  /\ \A i \in DOMAIN acts : Copied(finalActs[i]) = acts[i]
                  /\ written.json => written.Data = finalActs
            /\ (spc = "convert" /\ actIdx > Len(acts)) => AllParse(acts)
            /\ spc = "panic" =>
                  /\ ~AllParse(acts)
                  /\ ~written.json /\ written.Data = <<>>
            /\ \A i \in DOMAIN finalActs : Copied(finalActs[i]) = acts[i]

\* Two different activities, both parsing, have been converted and written
\* in the order of the response.
C29_Witness ==
    /\ spc = "done" /\ written.json
    /\ Len(activitiesReply.acts) = 2
    /\ activitiesReply.acts[1] # activitiesReply.acts[2]
    /\ Len(written.Data) = 2
    /\ Copied(written.Data[1]) = activitiesReply.acts[1]
    /\ Copied(written.Data[2]) = activitiesReply.acts[2]

\* The second activity of the response does not parse: the handler has
\* panicked after converting the first, and nothing was written.
C29_PanicCase ==
    /\ spc = "panic" /\ Len(finalActs) = 1
    /\ ~written.json /\ written.Data = <<>>

Digits == {DigitChar[k] : k \in DOMAIN DigitChar}

\* The value of a text of decimal digits.
RECURSIVE Atoi(_)
Atoi(str) ==
    IF str = <<>> THEN 0
    ELSE 10 * Atoi(SubSeq(str, 1, Len(str) - 1))
         + (CHOOSE k \in 0..9 : DigitChar[k + 1] = str[Len(str)])

\* The text has the form M:SS, M a number of minutes in decimal digits and
\* SS two digits denoting a value from 00 to 59.
IsPaceText(str) ==
    LET parts == Split(str, ":")
    IN  /\ Len(parts) = 2
        /\ Len(parts[1]) >= 1 /\ \A i \in DOMAIN parts[1] : parts[1][i] \in Digits
        /\ Len(parts[2]) = 2 /\ \A i \in DOMAIN parts[2] : parts[2][i] \in Digits
        /\ Atoi(parts[2]) <= 59

\* C30: the DisplayPace of every activity has the form M:SS with M the whole
\* minutes per mile and SS two digits from 00 to 59: the rounded seconds
\* never reach 60, and an activity of zero distance gives no malformed or
\* undefined pace.
C30_PaceFormat ==
    \A i \in DOMAIN finalActs : IsPaceText(finalActs[i].DisplayPace)

====
